---- MODULE Spec2Model ----
(***************************************************************************)
(* Image warehousing server: the job queue and worker pool of             *)
(* ImageService, the staging -> category relocation of StorageService and *)
(* the lock-guarded markdown ledger (index.md) of IndexService.           *)
(*                                                                         *)
(* Spec       one server process: uploads, QueueJob, the workers and the  *)
(*            2D / 3D pipelines, with every filesystem and provider call  *)
(*            free to succeed or fail.                                     *)
(* LiveSpec   Spec with the fairness of the Go scheduler on the workers.  *)
(* LedgerSpec goroutines of two processes calling the IndexService        *)
(*            operations on one ledger path.                               *)
(***************************************************************************)
EXTENDS Integers, Sequences, FiniteSets, TLC

\* ------------------------------------------------------------------ bounds
NumJobs == 2
NumWorkers == 2
QueueCap == 1
NumPeers == 1

\* uuid.New().String(): one fresh name per upload
IdNames == <<"a1", "a2", "a3", "a4", "a5", "a6">>
ImageIDs == {IdNames[i] : i \in 1..NumJobs}
Workers == 1..NumWorkers
\* goroutines of a second server process that shares the data directory
Peers == (NumWorkers + 1)..(NumWorkers + NumPeers)
Callers == Workers \cup Peers
ProcOf(c) == IF c \in Workers THEN "p1" ELSE "p2"
Procs == {"p1", "p2"}

None == "none"

\* ------------------------------------------------------------ sequences
RECURSIVE SeqOfSet(_)
SeqOfSet(S) ==
    IF S = {} THEN <<>>
    ELSE LET x == CHOOSE y \in S : TRUE
         IN <<x>> \o SeqOfSet(S \ {x})

Range(s) == {s[i] : i \in 1..Len(s)}

RECURSIVE Flatten(_)
Flatten(ss) == IF ss = <<>> THEN <<>> ELSE Head(ss) \o Flatten(Tail(ss))

\* strings.Join(elems, sep) over token sequences
RECURSIVE Join(_, _)
Join(elems, sep) ==
    IF elems = <<>> THEN <<>>
    ELSE IF Len(elems) = 1 THEN Head(elems)
    ELSE Head(elems) \o <<sep>> \o Join(Tail(elems), sep)

\* strings.Split(s, sep) over token sequences: never returns an empty list
RECURSIVE SplitAcc(_, _, _)
SplitAcc(s, sep, cur) ==
    IF s = <<>> THEN <<cur>>
    ELSE IF Head(s) = sep THEN <<cur>> \o SplitAcc(Tail(s), sep, <<>>)
    ELSE SplitAcc(Tail(s), sep, Append(cur, Head(s)))

Split(s, sep) == SplitAcc(s, sep, <<>>)

\* --------------------------------------------------------- models.search
ImageType2D == "2D"
ImageType3D == "3D"

Views4 == {"front", "back", "left", "right"}

\* What an upload handler puts in the UploadJob for asset id: the kind is
\* the request's, title and artist are non-empty; the first upload carries
\* two tags, the others none.
TagsOf(id) == IF id = IdNames[1] THEN << <<"beach">>, <<"sunset">> >> ELSE <<>>

UploadJob(id, type, tags) ==
    [ImageID |-> id, Type |-> type, Title |-> <<"title-of", id>>,
     Artist |-> <<"artist-of", id>>, ManualTags |-> tags]

\* ---- the upload handlers' view of a request ----
\* A multipart upload request: whether the form parses, the file parts it
\* carries, the "mode" value, whether title and artist are non-empty, and
\* the "tags" value ("" absent, "json" a JSON array, "garbage" anything else)
Request(kind, form, mode, parts, title, artist, tags) ==
    [kind |-> kind, form |-> form, mode |-> mode, parts |-> parts,
     title |-> title, artist |-> artist, tags |-> tags]

\* Handle3DUpload, lines 45-50: the views a mode asks for, in order
ModeViews(mode) ==
    IF mode = "4" THEN <<"front", "back", "left", "right">>
    ELSE <<"front", "back", "left", "right", "top", "bottom">>

\* Handle2DUpload, lines 27-58: the 400 response of a request, "" when the
\* request passes
Validate2D(req) ==
    IF ~req.form THEN "File too large or invalid form"
    ELSE IF "image" \notin req.parts THEN "No image provided"
    ELSE IF req.tags = "garbage" THEN "Invalid tags format"
    ELSE IF ~req.title \/ ~req.artist THEN "Title and artist are required"
    ELSE ""

\* Handle3DUpload, lines 28-90
Validate3D(req) ==
    LET views   == ModeViews(req.mode)
        missing == {i \in 1..Len(views) : views[i] \notin req.parts}
    IN IF ~req.form THEN "Files too large or invalid form"
       ELSE IF "model" \notin req.parts THEN "Missing 3D model file"
       ELSE IF missing /= {}
       THEN "Missing view: " \o views[CHOOSE i \in missing : \A k \in missing : i <= k]
       ELSE IF req.tags = "garbage" THEN "Invalid tags format"
       ELSE IF ~req.title \/ ~req.artist THEN "Title and artist are required"
       ELSE ""

Validate(req) == IF req.kind = ImageType2D THEN Validate2D(req) ELSE Validate3D(req)

\* a handler that goes on to save and queue whatever validation said
HandlerProceedsAlways(err) == TRUE

\* the handlers' "if err != nil { http.Error(...); return }"
HandlerProceeds(err) == err = ""

\* The requests clients send in this model: a good 2D upload, a good 3D
\* upload in 4-view mode, and uploads that miss a part or a field
MissingRight ==
    Request(ImageType3D, TRUE, "4", {"model", "front", "back", "left"}, TRUE, TRUE, "json")
Requests ==
    { Request(ImageType2D, TRUE, "", {"image"}, TRUE, TRUE, "json"),
      Request(ImageType3D, TRUE, "4", {"model"} \cup Views4, TRUE, TRUE, "json"),
      MissingRight,
      Request(ImageType3D, TRUE, "6", {"model"} \cup Views4, TRUE, TRUE, "json"),
      Request(ImageType3D, TRUE, "4", Views4, TRUE, TRUE, "json"),
      Request(ImageType2D, TRUE, "", {}, TRUE, TRUE, "json"),
      Request(ImageType2D, TRUE, "", {"image"}, FALSE, TRUE, "json"),
      Request(ImageType2D, TRUE, "", {"image"}, TRUE, TRUE, "garbage"),
      Request(ImageType3D, FALSE, "4", {}, TRUE, TRUE, "") }

NoAnalysis == [present |-> FALSE, PrimaryCategory |-> <<>>]

\* models.Image with Go's zero values for the fields a constructor leaves out
Image(id, type, status) ==
    [ID |-> id, Title |-> <<>>, Artist |-> <<>>, Type |-> type,
     UploadedAt |-> <<>>, ProcessedAt |-> <<>>, Status |-> status,
     FilePath |-> <<>>, ThumbnailPath |-> <<>>, FolderPath |-> <<>>,
     ModelFilePath |-> <<>>, ModelFilename |-> <<>>, Views |-> {},
     Category |-> <<>>,
     ManualTags |-> <<>>, AIAnalysis |-> NoAnalysis]

\* ------------------------------------------------------------ file paths
\* A directory is dataDir/<root>[/<cat>][/<id>]; filepath.Join drops an
\* empty element, so an empty category names the categories root itself.
Dir(root, cat, id) == [root |-> root, cat |-> cat, id |-> id]
TempRoot == Dir("temp", <<>>, "")
CategoriesRoot == Dir("categories", <<>>, "")
Path(dir, name) == [dir |-> dir, name |-> name]

\* A file name is its text cut before every dot: the pieces after the first
\* each begin with a dot and hold no other.
DotTokens == {".png", ".jpg", ".glb", ".image", ".x", "."}
DotsOf(name) == {i \in 1..Len(name) : name[i] \in DotTokens}

\* an Ext that cuts at the first dot of the name
ExtFromFirstDot(name) ==
    IF DotsOf(name) = {} THEN <<>>
    ELSE SubSeq(name, CHOOSE i \in DotsOf(name) : \A j \in DotsOf(name) : i <= j,
                Len(name))

\* filepath.Ext: the suffix of the name from its final dot (empty when the
\* name has no dot)
Ext(name) ==
    IF DotsOf(name) = {} THEN <<>>
    ELSE SubSeq(name, CHOOSE i \in DotsOf(name) : \A j \in DotsOf(name) : j <= i,
                Len(name))

\* filepath.Rel(dataDir, p) as text
DirText(d) ==
    <<d.root>> \o (IF d.cat = <<>> THEN <<>> ELSE <<"/">> \o d.cat)
               \o (IF d.id = "" THEN <<>> ELSE <<"/", d.id>>)
PathText(p) == DirText(p.dir) \o <<"/">> \o p.name

\* ------------------------------------------------------- StorageService
\* getThumbnailPath: same directory, the last extension replaced by
\* "_thumb.jpg"
getThumbnailPath(imagePath) ==
    LET base == imagePath.name
        ext  == Ext(base)
        name == SubSeq(base, 1, Len(base) - Len(ext))
    IN Path(imagePath.dir, name \o <<"_thumb", ".jpg">>)

\* SaveImageToTemp: tempDir/<imageID><ext>
StagedPath(id) == Path(TempRoot, <<id, ".png">>)
\* Save3DObjectToTemp: tempDir/<imageID>/model<ext> and one file per view
StagedDir(id) == Dir("temp", <<>>, id)
StagedView(id, view) == Path(StagedDir(id), <<view, ".png">>)
StagedModel(id) == Path(StagedDir(id), <<"model", ".glb">>)
Staged3D(id) == {StagedView(id, v) : v \in Views4} \cup {StagedModel(id)}

\* a move that empties the directory it moves into
RenameFileClearing(fs, from, to) == ({f \in fs : f.dir /= to.dir} \ {from}) \cup {to}

\* a move done as a copy: the source name stays
CopyFile(fs, from, to) == fs \cup {to}

\* os.Rename on a file: the source name disappears and the destination
\* name appears in one step
RenameFile(fs, from, to) == (fs \ {from}) \cup {to}
\* os.Rename on a directory: every file below it moves with it
RenameDir(fs, from, to) ==
    {IF f.dir = from THEN Path(to, f.name) ELSE f : f \in fs}

\* --------------------------------------------------------------- AIService
\* A category string is a sequence of characters.
LowerCase ==
    <<"a", "b", "c", "d", "e", "f", "g", "h", "i", "j", "k", "l", "m",
      "n", "o", "p", "q", "r", "s", "t", "u", "v", "w", "x", "y", "z">>
UpperCase ==
    <<"A", "B", "C", "D", "E", "F", "G", "H", "I", "J", "K", "L", "M",
      "N", "O", "P", "Q", "R", "S", "T", "U", "V", "W", "X", "Y", "Z">>
Digits == {"0", "1", "2", "3", "4", "5", "6", "7", "8", "9"}

\* strings.ToLower on one character
Lower(ch) ==
    IF \E i \in 1..Len(UpperCase) : UpperCase[i] = ch
    THEN LowerCase[CHOOSE i \in 1..Len(UpperCase) : UpperCase[i] = ch]
    ELSE ch
\* the filter of strings.Map: a-z, 0-9 and "-" stay
IsKept(ch) == ch \in Range(LowerCase) \cup Digits \cup {"-"}

RECURSIVE MapChars(_)
MapChars(cs) ==
    IF cs = <<>> THEN <<>>
    ELSE LET c1 == Lower(Head(cs))
             c2 == IF c1 = " " THEN "-" ELSE c1
         IN (IF IsKept(c2) THEN <<c2>> ELSE <<>>) \o MapChars(Tail(cs))

\* a category name used as the provider wrote it
KeepCategoryName(category) == category

\* normalizeCategoryName: ToLower, " " -> "-", drop all but a-z 0-9 "-"
normalizeCategoryName(category) == MapChars(category)

GetCategoryPath(analysis) == normalizeCategoryName(analysis.PrimaryCategory)

\* "Landscapes"
Landscapes == <<"L", "a", "n", "d", "s", "c", "a", "p", "e", "s">>

\* The PrimaryCategory strings the provider answers with in this model
ProviderCategories == {Landscapes, <<"!">>}

Analysis(cat) == [present |-> TRUE, PrimaryCategory |-> cat]

\* What the provider call yields: reply text that is JSON with a
\* primary_category, reply text that is not JSON, or no reply (an API error)
ProviderReplies ==
    {[kind |-> "json", PrimaryCategory |-> cat] : cat \in ProviderCategories}
      \cup {[kind |-> "text", PrimaryCategory |-> <<>>],
             [kind |-> "none", PrimaryCategory |-> <<>>]}

\* a client that takes any reply text as an analysis
AnalyzeImageLenient(reply) ==
    IF reply.kind = "none"
    THEN [err |-> "gemini API error", analysis |-> NoAnalysis]
    ELSE [err |-> "", analysis |-> Analysis(reply.PrimaryCategory)]

\* gemini.Client.AnalyzeImage2D / AnalyzeImage3D followed by the conversion
\* of Analyze2DImage / Analyze3DObject: json.Unmarshal of the reply text
\* decides between an analysis and the parse error
AnalyzeImage(reply) ==
    CASE reply.kind = "json" ->
            [err |-> "", analysis |-> Analysis(reply.PrimaryCategory)]
      [] reply.kind = "text" ->
            [err |-> "failed to parse Gemini response", analysis |-> NoAnalysis]
      [] OTHER ->
            [err |-> "gemini API error", analysis |-> NoAnalysis]

\* process2DJob line 1023 / process3DJob line 1104: the wrapped error
AnalyzeFailure(type, err) ==
    (IF type = ImageType2D THEN "failed to analyze image"
                           ELSE "failed to analyze 3D object") \o ": " \o err

\* ------------------------------------------------------------ IndexService
\* The ledger is text: a sequence of lines, a line a sequence of tokens.
\* A "**Name:**" marker is one token; the blank after it is dropped, as
\* extractField trims it.
Blank == <<>>
Rule == <<"---">>
Marker(fieldName) == "**" \o fieldName \o ":**"

\* InitializeIndex's initialContent
IndexHeader == << <<"# Image Warehouse Index">>, <<"Last Updated: ", "now">>, Blank, Rule >>

Field(fieldName, value) == <<Marker(fieldName)>> \o value

\* writeAIAnalysis, for a reply whose optional lists and descriptors are empty
writeAIAnalysis(ai) ==
    << Blank,
       <<"**AI Analysis:**">>,
       <<"- ">> \o Field("Description", <<"desc">>),
       <<"- ">> \o Field("Primary Category", ai.PrimaryCategory),
       <<"- ">> \o Field("Sub-category", <<>>) >>

\* the "- <view>: <path>" lines, in the order the map iteration yields
ViewLines(order) ==
    [i \in 1..Len(order) |-> <<"- ", order[i][1], ": ">> \o order[i][2]]

\* buildMarkdownEntry, given the iteration order of img.Views
buildMarkdownEntryIn(img, order) ==
    << Blank,
       <<"## Image: ">> \o <<img.ID>>,
       Blank,
       Field("Title", img.Title),
       Field("Artist", img.Artist),
       Field("Uploaded", img.UploadedAt),
       Field("Type", <<img.Type>>),
       Field("Category", img.Category) >>
    \o (IF img.Type = ImageType2D
        THEN << Field("File Path", img.FilePath),
                Field("Thumbnail", img.ThumbnailPath),
                Field("Dimensions", <<"W", "x", "H">>),
                Field("File Size", <<"size", " MB">>) >>
        ELSE IF img.Type = ImageType3D
        THEN << Field("Folder Path", img.FolderPath) >>
             \o (IF img.ModelFilePath /= <<>>
                 THEN << Field("Model File", img.ModelFilePath),
                         Field("Model Filename", img.ModelFilename) >>
                 ELSE <<>>)
             \o << <<"**Views:**">> >>
             \o ViewLines(order)
             \o << Field("Total File Size", <<"size", " MB (", "n", " views)">>) >>
        ELSE <<>>)
    \o (IF Len(img.ManualTags) > 0
        THEN << Blank, Field("Manual Tags", Join(img.ManualTags, ", ")) >>
        ELSE <<>>)
    \o (IF img.AIAnalysis.present THEN writeAIAnalysis(img.AIAnalysis) ELSE <<>>)
    \o << Blank, Rule >>

buildMarkdownEntry(img) == buildMarkdownEntryIn(img, SeqOfSet(img.Views))

\* the leftmost of the positions in hits, or 0 when there is none
FirstFrom(hits) ==
    IF hits = {} THEN 0 ELSE CHOOSE k \in hits : \A m \in hits : k <= m

IsBlankLine(line) == \A k \in 1..Len(line) : line[k] = " "
\* strings.TrimSpace: the blanks at both ends go, those inside stay
RECURSIVE TrimLeft(_)
TrimLeft(v) == IF v /= <<>> /\ Head(v) = " " THEN TrimLeft(Tail(v)) ELSE v
RECURSIVE TrimRight(_)
TrimRight(v) ==
    IF v /= <<>> /\ v[Len(v)] = " " THEN TrimRight(SubSeq(v, 1, Len(v) - 1)) ELSE v
TrimSpace(v) == TrimRight(TrimLeft(v))

\* extractField: the regexp \*\*<name>:\*\*\s*(.+) on a section. The match
\* is the first marker anywhere in the section; \s* also runs over line
\* ends, so when nothing but blanks follows the marker on its line the
\* capture is the next line that is not blank.
extractField(content, fieldName) ==
    LET HasMarker(line) == \E k \in 1..Len(line) : line[k] = Marker(fieldName)
        i == FirstFrom({j \in 1..Len(content) : HasMarker(content[j])})
    IN IF i = 0 THEN <<>>
       ELSE LET line == content[i]
                k    == CHOOSE k \in 1..Len(line) :
                            /\ line[k] = Marker(fieldName)
                            /\ \A m \in 1..(k - 1) : line[m] /= Marker(fieldName)
                rest == SubSeq(line, k + 1, Len(line))
                NotBlank(l) == ~IsBlankLine(l)
                n    == FirstFrom({j \in (i + 1)..Len(content) : NotBlank(content[j])})
            IN IF ~IsBlankLine(rest) THEN TrimSpace(rest)
               ELSE IF n = 0 THEN <<>>
               ELSE TrimSpace(content[n])

\* (?m)^## Image: (.+)$
IsHeading(line) == Len(line) >= 2 /\ line[1] = "## Image: "

\* ImageMetadata of one section
ParseSection(section) ==
    LET tagsStr == extractField(section, "Manual Tags")
    IN [ID       |-> Tail(section[1]),
        Title    |-> extractField(section, "Title"),
        Artist   |-> extractField(section, "Artist"),
        Category |-> extractField(section, "Category"),
        Type     |-> extractField(section, "Type"),
        ThumbnailPath |-> extractField(section, "Thumbnail"),
        FilePath |-> extractField(section, "File Path"),
        ModelFilePath |-> extractField(section, "Model File"),
        Description |-> extractField(section, "Description"),
        UploadedAt |-> extractField(section, "Uploaded"),
        Tags     |-> IF tagsStr /= <<>> THEN Split(tagsStr, ", ") ELSE <<>>]

\* GetAllImages on the text of the ledger: one summary per heading, its
\* section running to the next heading or to the end of the text
RECURSIVE ParseFrom(_, _)
ParseFrom(content, i) ==
    LET start == FirstFrom({j \in i..Len(content) : IsHeading(content[j])})
    IN IF start = 0 THEN <<>>
       ELSE LET next == FirstFrom({j \in (start + 1)..Len(content) : IsHeading(content[j])})
                end  == IF next = 0 THEN Len(content) ELSE next - 1
            IN <<ParseSection(SubSeq(content, start, end))>>
               \o ParseFrom(content, end + 1)

ParseIndex(content) == ParseFrom(content, 1)

\* ------------------------------------------------------------------ state
VARIABLES
    upPc,        \* per asset ID: where its upload request stands
    upJob,       \* the UploadJob each handler built (ImageID -> job)
    jobQueue,    \* ImageService.jobQueue: the buffered channel
    statusMap,   \* ImageService.statusMap (ImageID -> models.Image)
    files,       \* the files that exist under dataDir
    dirs,        \* the directories that exist under dataDir
    indexExists, \* index.md exists
    index,       \* the text of index.md
    lockHolder,  \* the process whose descriptor holds flock(index.md.lock)
    flockL,      \* per process: the l flag of its flock.Flock
    flockM,      \* per process: the goroutine inside Flock.Lock, blocked
    wk,          \* per goroutine: program counter and locals
    trace,       \* per asset ID: the pipeline steps that ran, in order
    failure,     \* per asset ID: the error its worker logged ("" if none)
    served,      \* per worker: the asset IDs it dequeued, in order
    calls,       \* per goroutine: the IndexService calls it has made
    appended,    \* the records whose AppendToIndex returned nil
    replied,     \* per asset ID: the kind of reply the provider gave ("" if none)
    request,     \* per upload: the request its handler received
    call,        \* a function applied on its own: its name and argument
    ret,         \* ... and what it returned
    reader       \* the GET /api/images/{id} request in progress

vars == <<upPc, upJob, jobQueue, statusMap, files, dirs, indexExists, index,
          lockHolder, flockL, flockM, wk, trace, failure, served, calls,
          appended, replied, request, call, ret, reader>>

schedVars == <<upPc, upJob, jobQueue, request>>
fsVars == <<files, dirs>>
indexVars == <<indexExists, index>>
lockVars == <<lockHolder, flockL, flockM>>
ghostVars == <<trace, failure, served>>
harnessVars == <<calls, appended, replied>>
fnVars == <<call, ret>>
readVars == <<reader>>
srvVars == <<schedVars, statusMap, fsVars, indexVars, lockVars, wk, ghostVars,
             harnessVars>>
sysVars == <<srvVars, readVars>>
\* no GET request in progress
NoRead == [pc |-> "idle", id |-> "", obj |-> ""]
NoCall == [fn |-> "", arg |-> <<>>]

NoJob == UploadJob("", "", <<>>)
NoImage == Image("", "", "")

\* a goroutine's locals: the job it holds, the classification and category,
\* the record it built, the error it is returning, whether its
\* InitializeIndex call wrote the file
Locals(pc) ==
    [pc |-> pc, job |-> NoJob, analysis |-> NoAnalysis, category |-> <<>>,
     image |-> NoImage, err |-> "", wrote |-> FALSE]

\* the first pipeline step of each job type (worker, lines 978-984)
FirstStep(type) == IF type = ImageType2D THEN "thumb" ELSE "thumbs3d"

\* ------------------------------------------------------------ ImageService
\* QueueJob, lines 938-948: the status entry is written under statusMutex
\* before the send is tried
QueueJobStatus(job) ==
    [Image(job.ImageID, job.Type, "processing") EXCEPT
        !.Title = job.Title, !.Artist = job.Artist,
        !.UploadedAt = <<"T-queued">>, !.ManualTags = job.ManualTags]

MapPut(m, k, v) == [x \in DOMAIN m \cup {k} |-> IF x = k THEN v ELSE m[x]]

\* QueueJob without its status write
QueueJobRecordSkipped(map, job) == map

QueueJobRecord(map, job) == MapPut(map, job.ImageID, QueueJobStatus(job))

\* Handle2DUpload / Handle3DUpload up to QueueJob's status write: the files
\* are staged under a fresh ID, the job is built and QueueJob records it.
HandleUpload(id) ==
    /\ upPc[id] = "new"
    /\ \E req \in Requests :
         LET err == Validate(req)
             job == UploadJob(id, req.kind,
                              IF req.tags = "json" THEN TagsOf(id) ELSE <<>>)
         IN /\ request' = MapPut(request, id, req)
            /\ IF HandlerProceeds(err)
               THEN /\ upJob' = MapPut(upJob, id, job)
                    /\ statusMap' = QueueJobRecord(statusMap, job)
                    /\ IF req.kind = ImageType2D
                       THEN /\ files' = files \cup {StagedPath(id)}
                            /\ dirs' = dirs
                       ELSE /\ files' = files \cup Staged3D(id)
                            /\ dirs' = dirs \cup {StagedDir(id)}
                    /\ upPc' = [upPc EXCEPT ![id] = "select"]
               ELSE /\ upPc' = [upPc EXCEPT ![id] = err]
                    /\ UNCHANGED <<upJob, statusMap, files, dirs>>
    /\ UNCHANGED <<fnVars, readVars, jobQueue, indexVars, lockVars, wk, ghostVars, harnessVars>>

\* QueueJob, lines 951-956: select { case jobQueue <- job: nil; default: error }
\* a send that reports success without putting the job in the channel
QueueJobSendDropping(queue, job) == [queue |-> queue, result |-> "accepted"]

QueueJobSend(queue, job) ==
    IF Len(queue) < QueueCap
    THEN [queue |-> Append(queue, job), result |-> "accepted"]
    ELSE [queue |-> queue, result |-> "rejected"]

QueueJobSelect(id) ==
    /\ upPc[id] = "select"
    /\ LET r == QueueJobSend(jobQueue, upJob[id])
       IN /\ jobQueue' = r.queue
          /\ upPc' = [upPc EXCEPT ![id] = r.result]
    /\ UNCHANGED <<fnVars, readVars, upJob, request, statusMap, fsVars, indexVars, lockVars, wk, ghostVars, harnessVars>>

\* GetStatus
GetStatus(imageID) ==
    IF imageID \in DOMAIN statusMap THEN statusMap[imageID] ELSE NoImage
GetStatusFound(imageID) == imageID \in DOMAIN statusMap

\* a receive that leaves the job in the channel
DequeuePeek(w) ==
    /\ wk[w].pc = "idle"
    /\ jobQueue /= <<>>
    /\ LET job == Head(jobQueue)
       IN /\ wk' = [wk EXCEPT ![w] = [Locals(FirstStep(job.Type)) EXCEPT !.job = job]]
          /\ served' = [served EXCEPT ![w] = Append(@, job.ImageID)]
    /\ jobQueue' = jobQueue
    /\ UNCHANGED <<fnVars, readVars, upPc, upJob, request, statusMap, fsVars, indexVars, lockVars, trace, failure, harnessVars>>

\* worker, line 974: for job := range s.jobQueue
Dequeue(w) ==
    /\ wk[w].pc = "idle"
    /\ jobQueue /= <<>>
    /\ LET job == Head(jobQueue)
       IN /\ wk' = [wk EXCEPT ![w] = [Locals(FirstStep(job.Type)) EXCEPT !.job = job]]
          /\ served' = [served EXCEPT ![w] = Append(@, job.ImageID)]
    /\ jobQueue' = Tail(jobQueue)
    /\ UNCHANGED <<fnVars, readVars, upPc, upJob, request, statusMap, fsVars, indexVars, lockVars, trace, failure, harnessVars>>

\* the step of a pipeline that just ran, recorded per asset ID
Ran(w, step) == trace' = [trace EXCEPT ![wk[w].job.ImageID] = Append(@, step)]
\* return fmt.Errorf(msg): the pipeline function returns to worker
Fails(w, msg) == wk' = [wk EXCEPT ![w].pc = "update", ![w].err = msg]
Goes(w, pc) == wk' = [wk EXCEPT ![w].pc = pc]

\* ---- process2DJob ----
\* 1. GenerateThumbnail(job.FilePath)
GenerateThumbnail(w) ==
    /\ wk[w].pc = "thumb"
    /\ Ran(w, "thumbnail")
    /\ \/ /\ files' = files \cup {getThumbnailPath(StagedPath(wk[w].job.ImageID))}
          /\ Goes(w, "probe")
       \/ /\ files' = files
          /\ Fails(w, "failed to generate thumbnail")
    /\ UNCHANGED <<fnVars, readVars, schedVars, harnessVars, statusMap, dirs, indexVars, lockVars, failure, served>>

\* 2-3. GetImageDimensions, GetFileSize: read only
Probe(w) ==
    /\ wk[w].pc = "probe"
    /\ Ran(w, "probe")
    /\ \/ Goes(w, "analyze")
       \/ Fails(w, "failed to get dimensions")
       \/ Fails(w, "failed to get file size")
    /\ UNCHANGED <<fnVars, readVars, schedVars, harnessVars, statusMap, fsVars, indexVars, lockVars, failure, served>>

\* 4-5. Analyze2DImage / Analyze3DObject, then GetCategoryPath
Analyze(w) ==
    /\ wk[w].pc = "analyze"
    /\ Ran(w, "classify")
    /\ \E reply \in ProviderReplies :
         LET r == AnalyzeImage(reply)
         IN /\ replied' = [replied EXCEPT ![wk[w].job.ImageID] = reply.kind]
            /\ IF r.err = ""
               THEN wk' = [wk EXCEPT ![w].analysis = r.analysis,
                                     ![w].category = GetCategoryPath(r.analysis),
                                     ![w].pc = IF wk[w].job.Type = ImageType2D
                                               THEN "move" ELSE "move3d"]
               ELSE Fails(w, AnalyzeFailure(wk[w].job.Type, r.err))
    /\ UNCHANGED <<fnVars, readVars, schedVars, calls, appended, statusMap, fsVars, indexVars, lockVars, failure, served>>

\* every category mapped to the categories root
CategoryDirFlat(category) == Dir("categories", <<>>, "")

\* MoveToCategory's paths (lines 513-521)
CategoryDir(category) == Dir("categories", category, "")
NewPath(imageID, tempPath, category) ==
    Path(CategoryDir(category), <<imageID>> \o Ext(tempPath.name))
NewThumbPath(imageID, category) ==
    Path(CategoryDir(category), <<imageID, "_thumb", ".jpg">>)

\* 6. MoveToCategory, lines 513-526: MkdirAll, then the rename of the image
MovePrimary(w) ==
    LET id  == wk[w].job.ImageID
        tmp == StagedPath(id)
        cat == wk[w].category
    IN /\ wk[w].pc = "move"
       /\ Ran(w, "relocate")
       /\ \/ /\ UNCHANGED fsVars
             /\ Fails(w, "failed to create category directory")
          \/ /\ dirs' = dirs \cup {CategoryDir(cat)}
             /\ \/ /\ tmp \in files
                   /\ files' = RenameFile(files, tmp, NewPath(id, tmp, cat))
                   /\ Goes(w, "movethumb")
                \/ /\ files' = files
                   /\ Fails(w, "failed to move image")
       /\ UNCHANGED <<fnVars, readVars, schedVars, harnessVars, statusMap, indexVars, lockVars, failure, served>>

\* The readings of the clock one job causes, in program order: QueueJob's
\* time.Now() (line 945), the pipeline's now := time.Now() (lines 1037,
\* 1118), its second time.Now() for UploadedAt (lines 1042, 1124) and
\* updateStatus's (line 1159). A later reading returns the same instant or a
\* later one.
ClockReadings == <<"T-queued", "T-processed", "T-built", "T-updated">>

\* process2DJob, lines 1037-1054: the record handed to AppendToIndex
Image2D(job, category, analysis, filePath, thumbPath) ==
    [Image(job.ImageID, ImageType2D, "completed") EXCEPT
        !.Title = job.Title, !.Artist = job.Artist,
        !.UploadedAt = <<"T-built">>, !.ProcessedAt = <<"T-processed">>,
        !.FilePath = PathText(filePath), !.ThumbnailPath = PathText(thumbPath),
        !.Category = category, !.ManualTags = job.ManualTags,
        !.AIAnalysis = analysis]

\* MoveToCategory, lines 528-539: the rename of the thumbnail; on success
\* process2DJob builds the record
MoveThumb(w) ==
    LET id    == wk[w].job.ImageID
        tmp   == StagedPath(id)
        cat   == wk[w].category
        thumb == getThumbnailPath(tmp)
    IN /\ wk[w].pc = "movethumb"
       /\ \/ /\ thumb \in files
             /\ files' = RenameFile(files, thumb, NewThumbPath(id, cat))
             /\ wk' = [wk EXCEPT ![w].pc = "lock",
                          ![w].image = Image2D(wk[w].job, cat, wk[w].analysis,
                                               NewPath(id, tmp, cat),
                                               NewThumbPath(id, cat))]
          \/ /\ files' = files
             /\ Goes(w, "rollback")
       /\ UNCHANGED <<fnVars, readVars, schedVars, harnessVars, statusMap, dirs, indexVars, lockVars, ghostVars>>

\* MoveToCategory, lines 530-532: os.Rename(newPath, tempPath) with its
\* result dropped, then the thumbnail error is returned
RollbackMove(fs, newPath, tempPath, renamed) ==
    IF renamed THEN RenameFile(fs, newPath, tempPath) ELSE fs

MoveRollback(w) ==
    LET id  == wk[w].job.ImageID
        tmp == StagedPath(id)
    IN /\ wk[w].pc = "rollback"
       /\ \E renamed \in BOOLEAN :
            files' = RollbackMove(files, NewPath(id, tmp, wk[w].category), tmp, renamed)
       /\ Fails(w, "failed to move thumbnail")
       /\ UNCHANGED <<fnVars, readVars, schedVars, harnessVars, statusMap, dirs, indexVars, lockVars, ghostVars>>

\* ---- process3DJob ----
\* 1. GenerateThumbnails3D: one thumbnail per view, in map order; a failure
\* leaves the thumbnails written before it
GenerateThumbnails3D(w) ==
    LET id == wk[w].job.ImageID
        Thumbs(vs) == {getThumbnailPath(StagedView(id, v)) : v \in vs}
    IN /\ wk[w].pc = "thumbs3d"
       /\ Ran(w, "thumbnail")
       /\ \/ /\ files' = files \cup Thumbs(Views4)
             /\ Goes(w, "sizes")
          \/ /\ \E v \in Views4 : files' = files \cup Thumbs(Views4 \ {v})
             /\ Fails(w, "failed to generate thumbnails")
          \/ /\ files' = files
             /\ Fails(w, "failed to generate thumbnails")
       /\ UNCHANGED <<fnVars, readVars, schedVars, harnessVars, statusMap, dirs, indexVars, lockVars, failure, served>>

\* 2. GetFileSize of every view and of the model file: read only
Sizes3D(w) ==
    /\ wk[w].pc = "sizes"
    /\ Ran(w, "probe")
    /\ \/ Goes(w, "analyze")
       \/ Fails(w, "failed to get file size")
       \/ Fails(w, "failed to get model file size")
    /\ UNCHANGED <<fnVars, readVars, schedVars, harnessVars, statusMap, fsVars, indexVars, lockVars, failure, served>>

\* 5. Move3DToCategory, lines 544-554: MkdirAll, then one rename of the
\* staged directory tempDir/<imageID>
MoveDir3D(w) ==
    LET id  == wk[w].job.ImageID
        cat == wk[w].category
        new == Dir("categories", cat, id)
    IN /\ wk[w].pc = "move3d"
       /\ Ran(w, "relocate")
       /\ \/ /\ UNCHANGED fsVars
             /\ Fails(w, "failed to create category directory")
          \/ /\ \/ /\ StagedDir(id) \in dirs
                   /\ dirs' = (dirs \ {StagedDir(id)}) \cup {CategoryDir(cat), new}
                   /\ files' = RenameDir(files, StagedDir(id), new)
                   /\ Goes(w, "readdir")
                \/ /\ dirs' = dirs \cup {CategoryDir(cat)}
                   /\ files' = files
                   /\ Fails(w, "failed to move object directory")
       /\ UNCHANGED <<fnVars, readVars, schedVars, harnessVars, statusMap, indexVars, lockVars, failure, served>>

\* Move3DToCategory, lines 565-590: the scan of the moved directory
ViewNames == <<"front", "back", "left", "right", "top", "bottom">>
IsModelFile(name) == name[1] = "model"
ViewOf(name) ==
    LET hits == {i \in 1..Len(ViewNames) :
                    name[1] = ViewNames[i] /\ "_thumb" \notin Range(name)}
    IN IF hits = {} THEN "" ELSE ViewNames[CHOOSE i \in hits : \A k \in hits : i <= k]
ScanViews(fs, dir) ==
    {<<ViewOf(f.name), PathText(f)>> :
        f \in {g \in fs : g.dir = dir /\ ~IsModelFile(g.name) /\ ViewOf(g.name) /= ""}}
ScanModel(fs, dir) ==
    LET ms == {g \in fs : g.dir = dir /\ IsModelFile(g.name)}
    IN IF ms = {} THEN <<>> ELSE PathText(CHOOSE g \in ms : TRUE)

\* process3DJob, lines 1118-1135
Image3D(job, category, analysis, folder, modelPath, views) ==
    [Image(job.ImageID, ImageType3D, "completed") EXCEPT
        !.Title = job.Title, !.Artist = job.Artist,
        !.UploadedAt = <<"T-built">>, !.ProcessedAt = <<"T-processed">>,
        !.FolderPath = DirText(folder), !.ModelFilePath = modelPath,
        !.ModelFilename = <<"model", ".glb">>, !.Views = views,
        !.Category = category, !.ManualTags = job.ManualTags,
        !.AIAnalysis = analysis]

\* Move3DToCategory, lines 560-594: os.ReadDir of the new directory; on
\* success process3DJob builds the record
ReadDir3D(w) ==
    LET id  == wk[w].job.ImageID
        new == Dir("categories", wk[w].category, id)
    IN /\ wk[w].pc = "readdir"
       /\ \/ wk' = [wk EXCEPT ![w].pc = "lock",
                       ![w].image = Image3D(wk[w].job, wk[w].category, wk[w].analysis,
                                            new, ScanModel(files, new), ScanViews(files, new))]
          \/ Fails(w, "failed to read object directory")
       /\ UNCHANGED <<fnVars, readVars, schedVars, harnessVars, statusMap, fsVars, indexVars, lockVars, ghostVars>>

\* ---- IndexService.AppendToIndex ----
\* flock.Flock.Lock as called at line 45 on the one Flock of the process
\* (NewIndexService, line 24). The library takes its mutex m, returns nil at
\* once when its flag l is already set, and otherwise calls flock(LOCK_EX)
\* on its own descriptor, still holding m, and sets l.
FlockLock(c, l, holder, m) ==
    LET p == ProcOf(c)
    IN IF l[p] THEN [l |-> l, holder |-> holder, m |-> m, in |-> TRUE]
       ELSE IF holder = None
       THEN [l |-> [l EXCEPT ![p] = TRUE], holder |-> p,
             m |-> [m EXCEPT ![p] = 0], in |-> TRUE]
       ELSE [l |-> l, holder |-> holder, m |-> [m EXCEPT ![p] = c], in |-> FALSE]

\* flock.Flock.Unlock as deferred at line 48: a no-op unless l is set, else
\* flock(LOCK_UN), close, l cleared
FlockUnlock(c, l, holder) ==
    LET p == ProcOf(c)
    IN IF l[p] THEN [l |-> [l EXCEPT ![p] = FALSE], holder |-> None]
       ELSE [l |-> l, holder |-> holder]

\* AppendToIndex, lines 45-48
AppendLock(c) ==
    LET p == ProcOf(c)
        r == FlockLock(c, flockL, lockHolder, flockM)
    IN /\ wk[c].pc = "lock"
       /\ flockM[p] \in {0, c}
       /\ \/ /\ flockL' = r.l
             /\ lockHolder' = r.holder
             /\ flockM' = r.m
             /\ wk' = [wk EXCEPT ![c].pc = IF r.in THEN "write" ELSE "lock"]
             /\ r.in \/ flockM[p] = 0
          \/ /\ ~flockL[p]
             /\ flockM[p] = 0
             /\ UNCHANGED lockVars
             /\ wk' = [wk EXCEPT ![c].pc = "appendret",
                                 ![c].err = "failed to acquire lock"]
       /\ UNCHANGED <<fnVars, readVars, schedVars, harnessVars, statusMap, fsVars, indexVars, ghostVars>>

\* the orders in which a range over img.Views may yield its entries
Reverse(s) == [i \in 1..Len(s) |-> s[Len(s) + 1 - i]]
ViewOrders(views) == {SeqOfSet(views), Reverse(SeqOfSet(views))}

\* the file opened with O_TRUNC in place of O_APPEND
WriteStringTruncating(content, entry) == IndexHeader \o entry

\* f.WriteString(entry) on a descriptor opened O_APPEND: the bytes written
\* go to the end of the file in one write
WriteString(content, entry) == content \o entry

\* what a write that returns an error may leave behind: nothing, or the
\* first lines of the entry
PartialWrites(entry) == {<<>>, SubSeq(entry, 1, 2)}

\* AppendToIndex, lines 51-62: buildMarkdownEntry, OpenFile(O_APPEND|O_WRONLY),
\* WriteString
AppendWrite(c) ==
    /\ wk[c].pc = "write"
    /\ \/ /\ UNCHANGED indexVars
          /\ wk' = [wk EXCEPT ![c].pc = "unlock", ![c].err = "failed to open index"]
       \/ /\ indexExists
          /\ indexExists' = indexExists
          /\ \E order \in ViewOrders(wk[c].image.Views) :
               LET entry == buildMarkdownEntryIn(wk[c].image, order)
               IN \/ /\ index' = WriteString(index, entry)
                     /\ Goes(c, "unlock")
                  \/ /\ \E part \in PartialWrites(entry) :
                          index' = WriteString(index, part)
                     /\ wk' = [wk EXCEPT ![c].pc = "unlock",
                                         ![c].err = "failed to write to index"]
    /\ UNCHANGED <<fnVars, readVars, schedVars, harnessVars, statusMap, fsVars, lockVars, ghostVars>>

\* AppendToIndex: the deferred s.lock.Unlock(), then the return
AppendUnlock(c) ==
    LET r == FlockUnlock(c, flockL, lockHolder)
    IN /\ wk[c].pc = "unlock"
       /\ flockM[ProcOf(c)] = 0
       /\ flockL' = r.l
       /\ lockHolder' = r.holder
       /\ flockM' = flockM
       /\ Goes(c, "appendret")
       /\ UNCHANGED <<fnVars, readVars, schedVars, harnessVars, statusMap, fsVars, indexVars, ghostVars>>

\* the goroutines between s.lock.Lock() returning nil and the deferred Unlock
InAppend == {c \in Callers : wk[c].pc \in {"write", "unlock"}}

\* ---- back in process2DJob / process3DJob ----
\* lines 1058-1067 / 1139-1148: an append error is returned; otherwise the
\* record replaces the status entry under statusMutex
StoreCompleted(map, image) == MapPut(map, image.ID, image)

\* the pipeline storing its record without looking at the append's error
AfterAppendUnchecked(w) ==
    /\ wk[w].pc = "appendret"
    /\ Ran(w, "append")
    /\ statusMap' = StoreCompleted(statusMap, wk[w].image)
    /\ Goes(w, "update")
    /\ UNCHANGED <<fnVars, readVars, schedVars, harnessVars, fsVars, indexVars, lockVars, failure, served>>

AfterAppend(w) ==
    /\ wk[w].pc = "appendret"
    /\ Ran(w, "append")
    /\ IF wk[w].err /= ""
       THEN /\ statusMap' = statusMap
            /\ Goes(w, "update")
       ELSE /\ statusMap' = StoreCompleted(statusMap, wk[w].image)
            /\ Goes(w, "update")
    /\ UNCHANGED <<fnVars, readVars, schedVars, harnessVars, fsVars, indexVars, lockVars, failure, served>>

\* updateStatus
updateStatus(map, imageID, status) ==
    IF imageID \in DOMAIN map
    THEN [map EXCEPT ![imageID] =
            [@ EXCEPT !.Status = status,
                      !.ProcessedAt = IF status = "completed"
                                      THEN <<"T-updated">> ELSE @]]
    ELSE map

\* a worker that reports every job as failed
WorkerStatusError(err) == "error"

\* worker, lines 986-992: what the loop does with the pipeline's result
WorkerStatus(err) == IF err /= "" THEN "error" ELSE "completed"
\* a worker that leaves its loop when a job fails
WorkerStopsOnError(err) == IF err /= "" THEN "stopped" ELSE "idle"

\* worker, line 974: the loop goes on to the next receive whatever the result
WorkerNext(err) == "idle"

WorkerFinish(w) ==
    LET id == wk[w].job.ImageID
    IN /\ wk[w].pc = "update"
       /\ statusMap' = updateStatus(statusMap, id, WorkerStatus(wk[w].err))
       /\ failure' = [failure EXCEPT ![id] = wk[w].err]
       /\ trace' = [trace EXCEPT ![id] = Append(@, "status")]
       /\ wk' = [wk EXCEPT ![w] = Locals(WorkerNext(wk[w].err))]
       /\ UNCHANGED <<fnVars, readVars, schedVars, harnessVars, fsVars, indexVars, lockVars, served>>

\* InitializeIndex without the IsNotExist test
InitializeIndexAlways(exists) == TRUE

\* ---- IndexService.ReadIndex ----
\* a ReadIndex that takes a missing file for an empty one
ReadIndexLenient(exists, content) ==
    [err |-> "", content |-> IF exists THEN content ELSE <<>>]

\* lines 68-74: os.ReadFile; a missing file is an error, not empty text
ReadIndex(exists, content) ==
    IF exists THEN [err |-> "", content |-> content]
    ELSE [err |-> "failed to read index", content |-> <<>>]

\* ---- IndexService.InitializeIndex ----
\* line 30: os.Stat; the file is written only when Stat says it is absent
InitializeIndexWrites(exists) == ~exists

InitStat(c) ==
    /\ wk[c].pc = "init"
    /\ IF InitializeIndexWrites(indexExists)
       THEN Goes(c, "initwrite")
       ELSE Goes(c, "initret")
    /\ UNCHANGED <<fnVars, readVars, schedVars, harnessVars, statusMap, fsVars, indexVars, lockVars, ghostVars>>

\* line 37: os.WriteFile creates or truncates index.md and writes the header
InitWrite(c) ==
    /\ wk[c].pc = "initwrite"
    /\ \/ /\ indexExists' = TRUE
          /\ index' = IndexHeader
          /\ wk' = [wk EXCEPT ![c].pc = "initret", ![c].wrote = TRUE]
       \/ /\ UNCHANGED indexVars
          /\ wk' = [wk EXCEPT ![c].pc = "initret", ![c].err = "write failed"]
    /\ UNCHANGED <<fnVars, readVars, schedVars, harnessVars, statusMap, fsVars, lockVars, ghostVars>>

\* ------------------------------------------------------------ the server
\* main: Initialize the storage directories, InitializeIndex, StartWorkers
Init ==
    /\ upPc = [id \in ImageIDs |-> "new"]
    /\ upJob = <<>>
    /\ jobQueue = <<>>
    /\ statusMap = <<>>
    /\ files = {}
    /\ dirs = {TempRoot, CategoriesRoot}
    /\ indexExists = TRUE
    /\ index = IndexHeader
    /\ lockHolder = None
    /\ flockL = [p \in Procs |-> FALSE]
    /\ flockM = [p \in Procs |-> 0]
    /\ wk = [c \in Callers |-> Locals(IF c \in Workers THEN "idle" ELSE "off")]
    /\ trace = [id \in ImageIDs |-> <<>>]
    /\ failure = [id \in ImageIDs |-> ""]
    /\ served = [c \in Callers |-> <<>>]
    /\ calls = [c \in Callers |-> [init |-> 0, append |-> 0]]
    /\ appended = {}
    /\ replied = [id \in ImageIDs |-> ""]
    /\ request = <<>>
    /\ call = NoCall
    /\ ret = <<>>
    /\ reader = NoRead

WorkerStep(w) ==
    \/ Dequeue(w)
    \/ GenerateThumbnail(w)
    \/ Probe(w)
    \/ Analyze(w)
    \/ MovePrimary(w)
    \/ MoveThumb(w)
    \/ MoveRollback(w)
    \/ GenerateThumbnails3D(w)
    \/ Sizes3D(w)
    \/ MoveDir3D(w)
    \/ ReadDir3D(w)
    \/ AppendLock(w)
    \/ AppendWrite(w)
    \/ AppendUnlock(w)
    \/ AfterAppend(w)
    \/ WorkerFinish(w)

Next ==
    \/ \E id \in ImageIDs : HandleUpload(id) \/ QueueJobSelect(id)
    \/ \E w \in Workers : WorkerStep(w)

Spec == Init /\ [][Next]_vars

\* ------------------------------------------------ the status endpoint
\* GET /api/images/{id} served while uploads and workers run. GetStatus
\* holds statusMutex.RLock for its whole body and returns the *models.Image
\* the map holds; the handler then encodes that record's fields with no lock
\* held.

\* the *models.Image a map entry points to: the one QueueJob allocated, which
\* is "processing" until updateStatus makes it "error", or the one the
\* pipeline built, which is "completed" from its construction
RecordObject(img) == IF img.Status = "completed" THEN "image" ELSE "queued"

\* HandleGetImage, lines 79-91: GetStatus under the read lock
HandleGetImage(id) ==
    /\ reader.pc = "idle"
    /\ reader' = IF GetStatusFound(id)
                 THEN [pc |-> "encode", id |-> id, obj |-> RecordObject(GetStatus(id))]
                 ELSE [pc |-> "index", id |-> id, obj |-> ""]
    /\ UNCHANGED <<fnVars, srvVars>>

\* lines 91-101: no status entry, the ledger is searched and the summary or
\* a 404 is sent
GetImageFromIndex ==
    /\ reader.pc = "index"
    /\ reader' = NoRead
    /\ UNCHANGED <<fnVars, srvVars>>

\* lines 103-104: json.NewEncoder(w).Encode(image) has read every field of
\* the record
EncodeImage ==
    /\ reader.pc = "encode"
    /\ reader' = NoRead
    /\ UNCHANGED <<fnVars, srvVars>>

ReadNext ==
    \/ Next
    \/ \E id \in ImageIDs : HandleGetImage(id)
    \/ GetImageFromIndex
    \/ EncodeImage

ReadSpec == Init /\ [][ReadNext]_vars

\* ------------------------------------------------- the ledger on its own
\* Goroutines of two processes (the workers of one server share its
\* IndexService; a peer is a second server on the same data directory) call
\* InitializeIndex and AppendToIndex on one index.md, as main and the
\* pipelines do, in any order and interleaving.
\* Each goroutine makes at most one call of each operation.
\* the record goroutine c appends: a finished record of its own ID, 2D for
\* the odd goroutines and 3D for the even ones
CallerRecord(c) ==
    LET id  == IdNames[c]
        cat == GetCategoryPath(Analysis(Landscapes))
        job2 == UploadJob(id, ImageType2D, TagsOf(id))
        job3 == UploadJob(id, ImageType3D, TagsOf(id))
        new == Dir("categories", cat, id)
    IN IF c % 2 = 1
       THEN Image2D(job2, cat, Analysis(Landscapes),
                    NewPath(id, StagedPath(id), cat), NewThumbPath(id, cat))
       ELSE Image3D(job3, cat, Analysis(Landscapes), new,
                    PathText(Path(new, <<"model", ".glb">>)),
                    {<<v, PathText(Path(new, <<v, ".png">>))>> : v \in Views4})

LedgerInit ==
    /\ upPc = [id \in ImageIDs |-> "new"]
    /\ upJob = <<>>
    /\ jobQueue = <<>>
    /\ statusMap = <<>>
    /\ files = {}
    /\ dirs = {TempRoot, CategoriesRoot}
    /\ indexExists = FALSE
    /\ index = <<>>
    /\ lockHolder = None
    /\ flockL = [p \in Procs |-> FALSE]
    /\ flockM = [p \in Procs |-> 0]
    /\ wk = [c \in Callers |-> Locals("ready")]
    /\ trace = [id \in ImageIDs |-> <<>>]
    /\ failure = [id \in ImageIDs |-> ""]
    /\ served = [c \in Callers |-> <<>>]
    /\ calls = [c \in Callers |-> [init |-> 0, append |-> 0]]
    /\ appended = {}
    /\ replied = [id \in ImageIDs |-> ""]
    /\ request = <<>>
    /\ call = NoCall
    /\ ret = <<>>
    /\ reader = NoRead

CallInitializeIndex(c) ==
    /\ wk[c].pc = "ready"
    /\ calls[c].init = 0
    /\ calls' = [calls EXCEPT ![c].init = @ + 1]
    /\ Goes(c, "init")
    /\ UNCHANGED <<fnVars, readVars, schedVars, statusMap, fsVars, indexVars, lockVars, ghostVars, appended, replied>>

CallAppendToIndex(c) ==
    /\ wk[c].pc = "ready"
    /\ calls[c].append = 0
    /\ calls' = [calls EXCEPT ![c].append = @ + 1]
    /\ wk' = [wk EXCEPT ![c].pc = "lock", ![c].image = CallerRecord(c)]
    /\ UNCHANGED <<fnVars, readVars, schedVars, statusMap, fsVars, indexVars, lockVars, ghostVars, appended, replied>>

CallReturn(c) ==
    /\ wk[c].pc \in {"initret", "appendret"}
    /\ appended' = IF wk[c].pc = "appendret" /\ wk[c].err = ""
                   THEN appended \cup {wk[c].image} ELSE appended
    /\ wk' = [wk EXCEPT ![c] = Locals("ready")]
    /\ UNCHANGED <<fnVars, readVars, schedVars, statusMap, fsVars, indexVars, lockVars, ghostVars, calls, replied>>

LedgerNext ==
    \E c \in Callers :
        \/ CallInitializeIndex(c)
        \/ InitStat(c)
        \/ InitWrite(c)
        \/ CallAppendToIndex(c)
        \/ AppendLock(c)
        \/ AppendWrite(c)
        \/ AppendUnlock(c)
        \/ CallReturn(c)

LedgerSpec == LedgerInit /\ [][LedgerNext]_vars

\* One ReadIndex at any moment of those calls, its argument being the file
\* as it then is.
CallReadIndex ==
    /\ call = NoCall
    /\ call' = [fn |-> "ReadIndex", arg |-> [exists |-> indexExists, index |-> index]]
    /\ ret' = ReadIndex(indexExists, index)
    /\ UNCHANGED sysVars

ReadLedgerNext ==
    \/ LedgerNext
    \/ CallReadIndex

ReadLedgerSpec == LedgerInit /\ [][ReadLedgerNext]_vars

\* GetAllImages, lines 184-238: ReadIndex, then one summary per heading
GetAllImages(exists, content) ==
    LET r == ReadIndex(exists, content)
    IN IF r.err /= "" THEN [err |-> r.err, images |-> <<>>]
       ELSE [err |-> "", images |-> ParseIndex(r.content)]

\* ... and one GetAllImages in place of the ReadIndex
CallGetAllImages ==
    /\ call = NoCall
    /\ call' = [fn |-> "GetAllImages", arg |-> [exists |-> indexExists, index |-> index]]
    /\ ret' = GetAllImages(indexExists, index)
    /\ UNCHANGED sysVars

\* the goroutines of one server calling the four operations
LogNext ==
    \/ \E c \in Workers :
          \/ CallInitializeIndex(c)
          \/ InitStat(c)
          \/ InitWrite(c)
          \/ CallAppendToIndex(c)
          \/ AppendLock(c)
          \/ AppendWrite(c)
          \/ AppendUnlock(c)
          \/ CallReturn(c)
    \/ CallReadIndex
    \/ CallGetAllImages

LogSpec == LedgerInit /\ [][LogNext]_vars

\* The ledger already initialized, and goroutines that only append: N
\* workers appending M records at once.
AppendInit ==
    /\ upPc = [id \in ImageIDs |-> "new"]
    /\ upJob = <<>>
    /\ jobQueue = <<>>
    /\ statusMap = <<>>
    /\ files = {}
    /\ dirs = {TempRoot, CategoriesRoot}
    /\ indexExists = TRUE
    /\ index = IndexHeader
    /\ lockHolder = None
    /\ flockL = [p \in Procs |-> FALSE]
    /\ flockM = [p \in Procs |-> 0]
    /\ wk = [c \in Callers |-> Locals("ready")]
    /\ trace = [id \in ImageIDs |-> <<>>]
    /\ failure = [id \in ImageIDs |-> ""]
    /\ served = [c \in Callers |-> <<>>]
    /\ calls = [c \in Callers |-> [init |-> 0, append |-> 0]]
    /\ appended = {}
    /\ replied = [id \in ImageIDs |-> ""]
    /\ request = <<>>
    /\ call = NoCall
    /\ ret = <<>>
    /\ reader = NoRead

AppendNext ==
    \E c \in Callers :
        \/ CallAppendToIndex(c)
        \/ AppendLock(c)
        \/ AppendWrite(c)
        \/ AppendUnlock(c)
        \/ CallReturn(c)

AppendSpec == AppendInit /\ [][AppendNext]_vars

\* ------------------------------------------------------ a scheduled pool
\* StartWorkers(LivePool): the pool under the Go scheduler, which runs every
\* goroutine that can take a step
LivePool == 1
LiveWorkers == 1..LivePool

LiveNext ==
    \/ \E id \in ImageIDs : HandleUpload(id) \/ QueueJobSelect(id)
    \/ \E w \in LiveWorkers : WorkerStep(w)

LiveSpec ==
    /\ Init
    /\ [][LiveNext]_vars
    /\ \A w \in LiveWorkers : WF_vars(WorkerStep(w))

\* --------------------------------------------- a provider that may hang
\* process2DJob and process3DJob call the provider with context.Background()
\* (lines 998, 1021): no deadline and no cancellation, so a call the
\* provider never answers never returns, and the goroutine stays inside it
\* a hang that stops the idle workers of the pool as well
ProviderHangsPool(w) ==
    /\ wk[w].pc = "analyze"
    /\ wk' = [v \in Callers |->
                IF v = w \/ wk[v].pc = "idle" THEN [wk[v] EXCEPT !.pc = "blocked"]
                ELSE wk[v]]
    /\ UNCHANGED <<fnVars, readVars, schedVars, harnessVars, statusMap, fsVars, indexVars, lockVars, ghostVars>>

\* Analyze2DImage(ctx, ...) / Analyze3DObject(ctx, ...) does not return
ProviderHangs(w) ==
    /\ wk[w].pc = "analyze"
    /\ Goes(w, "blocked")
    /\ UNCHANGED <<fnVars, readVars, schedVars, harnessVars, statusMap, fsVars, indexVars, lockVars, ghostVars>>

HangNext ==
    \/ \E id \in ImageIDs : HandleUpload(id) \/ QueueJobSelect(id)
    \/ \E w \in Workers : WorkerStep(w) \/ ProviderHangs(w)

\* the Go scheduler runs every goroutine that can take a step; whether the
\* provider answers is up to the provider
HangSpec ==
    /\ Init
    /\ [][HangNext]_vars
    /\ \A w \in Workers : WF_vars(WorkerStep(w))

\* ------------------------------------------------- functions on their own
\* The functions of the services that compute a value from their arguments
\* alone, each applied once to every argument of a bounded set.
MaxCatLen == 3

\* all sequences over S of length at most n
Seqs(S, n) == UNION {[1..k -> S] : k \in 0..n}

\* "Sci-Fi Character!"
SciFiCharacter ==
    <<"S", "c", "i", "-", "F", "i", " ", "C", "h", "a", "r", "a", "c", "t", "e", "r", "!">>

\* the PrimaryCategory strings tried: every string of up to MaxCatLen
\* characters out of a letter of each case, a digit, a blank, a hyphen and
\* a punctuation mark, and the example above
CategoryInputs == Seqs({"S", "c", "0", " ", "-", "!"}, MaxCatLen) \cup {SciFiCharacter}

CallGetCategoryPath ==
    /\ call = NoCall
    /\ \E category \in CategoryInputs :
         /\ call' = [fn |-> "GetCategoryPath", arg |-> category]
         /\ ret' = GetCategoryPath(Analysis(category))
    /\ UNCHANGED sysVars

\* The records of a round trip: what process2DJob / process3DJob build for
\* a title, an artist, a provider category and the caller's tags
RoundTripTitles == {<<"Sunset">>, <<"My", " ", "Title">>}
RoundTripArtists == {<<"Ann">>}
\* no tags; two plain tags; a tag "a,b"; a tag "a, b"; one empty tag; an
\* empty tag before a plain one
RoundTripTags ==
    { <<>>,
      << <<"beach">>, <<"sunset">> >>,
      << <<"a", ",", "b">> >>,
      << <<"a", ", ", "b">> >>,
      << <<>> >>,
      << <<>>, <<"x">> >> }

RoundTripRecord(type, title, artist, raw, tags) ==
    LET id  == IdNames[1]
        job == [UploadJob(id, type, tags) EXCEPT !.Title = title, !.Artist = artist]
        cat == GetCategoryPath(Analysis(raw))
        new == Dir("categories", cat, id)
    IN IF type = ImageType2D
       THEN Image2D(job, cat, Analysis(raw),
                    NewPath(id, StagedPath(id), cat), NewThumbPath(id, cat))
       ELSE Image3D(job, cat, Analysis(raw), new,
                    PathText(Path(new, <<"model", ".glb">>)),
                    {<<v, PathText(Path(new, <<v, ".png">>))>> : v \in Views4})

\* AppendToIndex of one record on a fresh ledger, then GetAllImages
CallRoundTrip ==
    /\ call = NoCall
    /\ \E type \in {ImageType2D, ImageType3D} :
       \E title \in RoundTripTitles : \E artist \in RoundTripArtists :
       \E raw \in CategoryInputs : \E tags \in RoundTripTags :
         LET img == RoundTripRecord(type, title, artist, raw, tags)
         IN /\ call' = [fn |-> "GetAllImages", arg |-> img]
            /\ ret' = ParseIndex(WriteString(IndexHeader, buildMarkdownEntry(img)))
    /\ UNCHANGED sysVars

\* ---- IndexService.buildMarkdownEntry ----
\* a plain title; a title whose text holds "**Manual Tags:**"; one whose text
\* holds "**AI Analysis:**"
EntryTitles ==
    { <<"Sunset">>,
      <<"x", " ", Marker("Manual Tags"), "fake">>,
      <<"x", " ", Marker("AI Analysis")>> }
\* no tags (nil and the empty list are alike to len); two tags; one empty tag
EntryTags == { <<>>, << <<"beach">>, <<"sunset">> >>, << <<>> >> }
\* img.AIAnalysis: nil, or a classification
EntryAnalyses == {NoAnalysis, Analysis(Landscapes)}

EntryRecord(type, title, tags, analysis) ==
    [RoundTripRecord(type, title, <<"Ann">>, Landscapes, tags)
        EXCEPT !.AIAnalysis = analysis]

CallBuildMarkdownEntry ==
    /\ call = NoCall
    /\ \E type \in {ImageType2D, ImageType3D} : \E title \in EntryTitles :
       \E tags \in EntryTags : \E analysis \in EntryAnalyses :
         LET img == EntryRecord(type, title, tags, analysis)
         IN /\ call' = [fn |-> "buildMarkdownEntry", arg |-> img]
            /\ ret' = buildMarkdownEntry(img)
    /\ UNCHANGED sysVars

\* ---- SearchService.Search, SearchHandler.HandleSearch ----
MaxMatches == 3
DefaultLimit == 10

\* the n ranked matches the provider returns, best first
Ranked(n) == [i \in 1..n |-> [ImageID |-> IdNames[i], Rank |-> i]]

\* what AIService.SearchImages returns: a list of matches, or an error
SearchOutcomes ==
    {[err |-> "", results |-> Ranked(n)] : n \in 0..MaxMatches}
        \cup {[err |-> "failed to parse search results", results |-> <<>>]}

\* the limits a request body can carry: "limit" is a JSON int
Limits == -1..(MaxMatches + 1)

SearchResponse(results, query) ==
    [panic |-> FALSE, err |-> "", Results |-> results, Total |-> Len(results),
     Query |-> query]
SearchError(msg) ==
    [panic |-> FALSE, err |-> msg, Results |-> <<>>, Total |-> 0, Query |-> ""]
\* results[:limit] with limit < 0: slice bounds out of range
SearchPanic ==
    [panic |-> TRUE, err |-> "", Results |-> <<>>, Total |-> 0, Query |-> ""]

\* Search, lines 26-55, given what SearchImages returned
Search(found, query, limit) ==
    IF ReadIndex(indexExists, index).err /= "" THEN SearchError("failed to read index")
    ELSE IF found.err /= "" THEN SearchError("failed to search with AI")
    ELSE IF Len(found.results) > limit
         THEN IF limit < 0 THEN SearchPanic
              ELSE SearchResponse(SubSeq(found.results, 1, limit), query)
         ELSE SearchResponse(found.results, query)

\* HandleSearch, lines 114-143
HandleSearch(req, found) ==
    IF req.Query = "" THEN SearchError("Query is required")
    ELSE LET limit == IF req.Limit = 0 THEN DefaultLimit ELSE req.Limit
             r     == Search(found, req.Query, limit)
         IN IF r.err /= "" THEN SearchError("Search failed: " \o r.err) ELSE r

CallSearch ==
    /\ call = NoCall
    /\ \E found \in SearchOutcomes, limit \in Limits :
         /\ call' = [fn |-> "Search", arg |-> [found |-> found, limit |-> limit]]
         /\ ret' = Search(found, "q", limit)
    /\ UNCHANGED sysVars

CallHandleSearch ==
    /\ call = NoCall
    /\ \E found \in SearchOutcomes, limit \in Limits, query \in {"", "q"} :
         /\ call' = [fn |-> "HandleSearch",
                     arg |-> [found |-> found, limit |-> limit, query |-> query]]
         /\ ret' = HandleSearch([Query |-> query, Limit |-> limit], found)
    /\ UNCHANGED sysVars

\* ---- StorageService.getThumbnailPath ----
MaxNameLen == 3
\* the file names tried: a first piece with or without a dot, then pieces
\* that each begin with a dot
FileNames ==
    {n \in Seqs(DotTokens \cup {"my"}, MaxNameLen) :
        n /= <<>> /\ \A i \in 2..Len(n) : n[i] \in DotTokens}
ThumbDirs == {TempRoot, StagedDir(IdNames[1]), CategoryDir(<<"l", "a">>)}

CallGetThumbnailPath ==
    /\ call = NoCall
    /\ \E dir \in ThumbDirs, name \in FileNames :
         /\ call' = [fn |-> "getThumbnailPath", arg |-> Path(dir, name)]
         /\ ret' = getThumbnailPath(Path(dir, name))
    /\ UNCHANGED sysVars

\* ---- StorageService.Move3DToCategory ----
\* the names a client can give the file it uploads for a view: the staged
\* name keeps only the extension
UploadNames ==
    { <<"shot", ".png">>, <<"front_thumb", ".jpg">>, <<"shot">>,
      <<"shot", ".x", "_thumb">> }

\* Save3DObjectToTemp, lines 439-471: objectDir/model<ext> and, for every
\* view, objectDir/<view><ext of the uploaded file's name>
Save3DObjectToTemp(id, views, filenames) ==
    {Path(StagedDir(id), <<"model">> \o Ext(<<"scene", ".glb">>))}
        \cup {Path(StagedDir(id), <<v>> \o Ext(filenames[v])) : v \in views}

\* GenerateThumbnails3D on those view files, none failing
Thumbnails3D(id, views, filenames) ==
    {getThumbnailPath(Path(StagedDir(id), <<v>> \o Ext(filenames[v]))) : v \in views}

\* Move3DToCategory, lines 543-595, with no call failing: what is on disk
\* afterwards and the three values returned
Move3DToCategory(fs, imageID, category) ==
    LET new   == Dir("categories", category, imageID)
        moved == RenameDir(fs, StagedDir(imageID), new)
    IN [files |-> moved, folder |-> DirText(new),
        model |-> ScanModel(moved, new), views |-> ScanViews(moved, new)]

CallMove3DToCategory ==
    /\ call = NoCall
    /\ \E mode \in {"4", "6"} : \E front \in UploadNames : \E back \in UploadNames :
       \E category \in {<<>>, <<"l", "a">>} :
         LET id        == IdNames[1]
             views     == Range(ModeViews(mode))
             filenames == [v \in views |->
                             IF v = "front" THEN front
                             ELSE IF v = "back" THEN back ELSE <<v, ".png">>]
             staged    == Save3DObjectToTemp(id, views, filenames)
             fs        == staged \cup Thumbnails3D(id, views, filenames)
         IN /\ call' = [fn |-> "Move3DToCategory",
                        arg |-> [id |-> id, category |-> category, views |-> views,
                                 filenames |-> filenames, fs |-> fs]]
            /\ ret' = Move3DToCategory(fs, id, category)
    /\ UNCHANGED sysVars

\* the PrimaryCategory strings of a relocation: every string of up to
\* MaxCatLen characters out of a letter, a hyphen, a punctuation mark, a
\* dot and the two path separators
PathCategoryInputs == Seqs({"c", "-", "!", ".", "/", "\\"}, MaxCatLen)

\* process2DJob steps 5-6 on their own: GetCategoryPath, then the directory
\* and the path MoveToCategory builds for the image
CallMoveToCategory ==
    /\ call = NoCall
    /\ \E category \in PathCategoryInputs :
         LET cat == GetCategoryPath(Analysis(category))
         IN /\ call' = [fn |-> "MoveToCategory", arg |-> category]
            /\ ret' = [category |-> cat,
                       dir |-> DirText(CategoryDir(cat)),
                       path |-> PathText(NewPath("a1", StagedPath("a1"), cat))]
    /\ UNCHANGED sysVars

FnNext ==
    \/ CallMoveToCategory
    \/ CallMove3DToCategory
    \/ CallBuildMarkdownEntry
    \/ CallGetThumbnailPath
    \/ CallGetCategoryPath
    \/ CallRoundTrip
    \/ CallSearch
    \/ CallHandleSearch

FnSpec == Init /\ [][FnNext]_vars

\* ================================================================ claims
InQueue(id) == \E i \in 1..Len(jobQueue) : jobQueue[i].ImageID = id
HeldBy(w, id) == wk[w].pc \notin {"idle", "off", "ready"} /\ wk[w].job.ImageID = id
Held(id) == \E w \in Workers : HeldBy(w, id)
Finished(id) == trace[id] /= <<>> /\ trace[id][Len(trace[id])] = "status"
\* the worker that holds id has not yet written its result to the map
NotYetWritten(id) ==
    \/ InQueue(id)
    \/ \E w \in Workers : HeldBy(w, id) /\ (wk[w].pc /= "update" \/ wk[w].err /= "")
StatusOf(id) == GetStatus(id).Status
\* the summaries GetAllImages returns for asset id
EntriesOf(id) ==
    LET all == ParseIndex(index)
    IN {i \in 1..Len(all) : all[i].ID = <<id>>}

\* C1: a QueueJob that returns the queue-full error leaves the status map
\* as it was: the ID of the rejected job has no status entry, so GetStatus
\* reports it as not found.
C1_RejectedLeavesNoStatus ==
    \A id \in ImageIDs : upPc[id] = "rejected" => ~GetStatusFound(id)

\* C2: QueueJob never blocks; with free capacity it returns nil and the job
\* is in the queue; an accepted job is in the queue, with a worker, or
\* finished; and GetStatus reports "processing" for it until its worker
\* writes the result.
C2_AcceptedIsProcessing ==
    /\ [](\A id \in ImageIDs :
            /\ upPc[id] = "select" => ENABLED QueueJobSelect(id)
            /\ upPc[id] = "accepted" =>
                 /\ InQueue(id) \/ Held(id) \/ Finished(id)
                 /\ NotYetWritten(id) =>
                      GetStatusFound(id) /\ StatusOf(id) = "processing")
    /\ [][\A id \in ImageIDs :
            (upPc[id] = "select" /\ Len(jobQueue) < QueueCap /\ upPc'[id] /= "select")
               => (upPc'[id] = "accepted" /\ jobQueue' = Append(jobQueue, upJob[id])
                   /\ StatusOf(id)' = "processing")]_vars

C2_Witness ==
    \E a, b \in ImageIDs :
        /\ a /= b
        /\ upPc[a] = "accepted" /\ Held(a) /\ StatusOf(a) = "processing"
        /\ upPc[b] = "accepted" /\ InQueue(b) /\ StatusOf(b) = "processing"

\* C3: every asset whose status entry says "completed" has exactly one entry
\* in the ledger, for 2D and 3D jobs alike.
C3_CompletedHasOneEntry ==
    \A id \in DOMAIN statusMap :
        statusMap[id].Status = "completed" => Cardinality(EntriesOf(id)) = 1

C3_Witness ==
    \E a, b \in DOMAIN statusMap :
        /\ statusMap[a].Status = "completed" /\ statusMap[a].Type = ImageType2D
        /\ statusMap[b].Status = "completed" /\ statusMap[b].Type = ImageType3D
        /\ Finished(a) /\ Finished(b)
        /\ Cardinality(EntriesOf(a)) = 1 /\ Cardinality(EntriesOf(b)) = 1

\* C4: at most one goroutine at a time is between AppendToIndex's Lock and
\* its Unlock, over the workers of one process and over processes.
C4_OneWriterAtATime == Cardinality(InAppend) <= 1

\* content is exactly the entries of the records in images, each whole and
\* in one piece, in some order
RECURSIVE WholeEntries(_, _)
WholeEntries(content, images) ==
    IF content = <<>> THEN images = {}
    ELSE \E img \in images : \E order \in ViewOrders(img.Views) :
            LET entry == buildMarkdownEntryIn(img, order)
            IN /\ Len(entry) <= Len(content)
               /\ SubSeq(content, 1, Len(entry)) = entry
               /\ WholeEntries(SubSeq(content, Len(entry) + 1, Len(content)),
                               images \ {img})

AllRecords == {CallerRecord(c) : c \in Callers}
AllReturned == \A c \in Callers : wk[c].pc = "ready" /\ calls[c].append = 1

\* C5: once the concurrent AppendToIndex calls of distinct records have all
\* returned nil, the ledger is its header followed by exactly one whole
\* entry per record, no lines of two entries mixed, and GetAllImages
\* returns exactly one summary per appended ID.
C5_ConcurrentAppendsAllWhole ==
    (AllReturned /\ appended = AllRecords) =>
        /\ SubSeq(index, 1, Len(IndexHeader)) = IndexHeader
        /\ WholeEntries(SubSeq(index, Len(IndexHeader) + 1, Len(index)), appended)
        /\ Len(ParseIndex(index)) = Cardinality(appended)
        /\ \A img \in appended :
              \E i \in 1..Len(ParseIndex(index)) :
                  /\ ParseIndex(index)[i].ID = <<img.ID>>
                  /\ ParseIndex(index)[i].Type = <<img.Type>>
                  /\ ParseIndex(index)[i].Title = img.Title

C5_Witness ==
    /\ AllReturned
    /\ appended = AllRecords
    /\ Len(ParseIndex(index)) = Cardinality(Callers)

\* C6: an InitializeIndex call that finds index.md present returns nil
\* without a further step and leaves the file's text as it was.
C6_InitializeKeepsExisting ==
    [][\A c \in Callers :
          (wk[c].pc = "init" /\ indexExists /\ wk'[c].pc /= "init")
             => /\ wk'[c].pc = "initret"
                /\ wk'[c].err = ""
                /\ ~wk'[c].wrote
                /\ indexExists'
                /\ index' = index]_vars

\* a call has returned without writing while the ledger holds an appended
\* entry that is still parsed back
C6_Witness ==
    \E c \in Callers :
        /\ wk[c].pc = "initret" /\ ~wk[c].wrote /\ wk[c].err = ""
        /\ \E img \in appended :
              \E i \in 1..Len(ParseIndex(index)) : ParseIndex(index)[i].ID = <<img.ID>>

\* C7: MoveToCategory moves image and thumbnail together or not at all: when
\* it returns the thumbnail error the image is back at its staging path and
\* not in the category directory; when it returns success both files are in
\* the category directory and neither is in staging.
C7_MoveAllOrNothing ==
    \A w \in Workers :
        LET id  == wk[w].job.ImageID
            tmp == StagedPath(id)
            new == NewPath(id, tmp, wk[w].category)
        IN /\ (wk[w].pc = "update" /\ wk[w].err = "failed to move thumbnail")
                => (tmp \in files /\ new \notin files)
           /\ (wk[w].pc = "lock" /\ wk[w].job.Type = ImageType2D)
                => /\ new \in files
                   /\ NewThumbPath(id, wk[w].category) \in files
                   /\ tmp \notin files
                   /\ getThumbnailPath(tmp) \notin files

\* the copies of the 2D image of asset id, in staging and under categories
PrimaryCopies(id) == {f \in files : f.name = <<id, ".png">> /\ f.dir.id = ""}
FileAt(text) == {f \in files : PathText(f) = text}

\* C8: from staging on, the image of a 2D job exists at exactly one of its
\* staging path and its category path; once the job is completed the file
\* at the record's FilePath and the thumbnail at its ThumbnailPath exist,
\* both under categories, and the staging path is gone.
C8_ExactlyOnePlace ==
    \A id \in DOMAIN upJob :
        upJob[id].Type = ImageType2D =>
            /\ Cardinality(PrimaryCopies(id)) = 1
            /\ StatusOf(id) = "completed" =>
                 /\ \E f \in FileAt(statusMap[id].FilePath) :
                        f.dir.root = "categories" /\ f.dir.cat = statusMap[id].Category
                 /\ \E g \in FileAt(statusMap[id].ThumbnailPath) :
                        g.dir.root = "categories"
                 /\ StagedPath(id) \notin files

C8_Witness ==
    \E id \in DOMAIN upJob :
        /\ upJob[id].Type = ImageType2D
        /\ StatusOf(id) = "completed"
        /\ Finished(id)
        /\ StagedPath(id) \notin files
        /\ FileAt(statusMap[id].FilePath) /= {}

\* the steps of a pipeline, in order, and the step each error comes from
Pipeline == <<"thumbnail", "probe", "classify", "relocate", "append">>
FailStep(err) ==
    CASE err \in {"failed to generate thumbnail", "failed to generate thumbnails"} -> 1
      [] err \in {"failed to get dimensions", "failed to get file size",
                  "failed to get model file size"} -> 2
      [] err \in {AnalyzeFailure(t, e) :
                      t \in {ImageType2D, ImageType3D},
                      e \in {"failed to parse Gemini response", "gemini API error"}} -> 3
      [] err \in {"failed to create category directory", "failed to move image",
                  "failed to move thumbnail", "failed to move object directory",
                  "failed to read object directory"} -> 4
      [] OTHER -> 5

\* every text a GetStatus caller can read on a record
RecordTexts(img) ==
    {img.Status, img.ID, img.Type}
      \cup Range(img.Title) \cup Range(img.Artist) \cup Range(img.Category)
      \cup Range(img.UploadedAt) \cup Range(img.ProcessedAt)
      \cup Range(img.FilePath) \cup Range(img.ThumbnailPath)
      \cup Range(img.FolderPath) \cup Range(Flatten(img.ManualTags))

\* a failed job ran no step after the one that failed and ends in the
\* terminal status "error"
C9_StopsAndFails ==
    \A id \in ImageIDs :
        failure[id] /= "" =>
            /\ trace[id] = SubSeq(Pipeline, 1, FailStep(failure[id])) \o <<"status">>
            /\ StatusOf(id) = "error"

\* C9: when a step of the pipeline fails no later step of the job runs, the
\* record ends in the terminal failed status, and the error is kept on the
\* record, where GetStatus exposes it.
C9_FailureRetained ==
    /\ C9_StopsAndFails
    /\ \A id \in ImageIDs :
          failure[id] /= "" => failure[id] \in RecordTexts(GetStatus(id))

\* C10: a worker goes back to the queue after every job, failed or not, and
\* every job accepted is brought to a terminal status also when a job failed
\* before it.
C10_PoolSurvivesFailure ==
    /\ [][\A w \in Workers :
             (wk[w].pc = "update" /\ wk'[w].pc /= "update") => wk'[w].pc = "idle"]_vars
    /\ \A a, b \in ImageIDs :
          (failure[a] /= "" /\ upPc[b] = "accepted")
             ~> (StatusOf(b) \in {"completed", "error"})

C10_Witness ==
    \E w \in Workers : \E a, b \in ImageIDs :
        /\ served[w] = <<a, b>>
        /\ failure[a] /= ""
        /\ Finished(b)
        /\ StatusOf(b) = "completed"

\* the asset's classification reply was not JSON
MalformedReply(id) == replied[id] = "text"

\* the files staged by the upload of id, and the files of id under categories
StagedFiles(id) ==
    IF upJob[id].Type = ImageType2D THEN {StagedPath(id)} ELSE Staged3D(id)
Relocated(id) ==
    {f \in files : f.dir.root = "categories" /\ (f.dir.id = id \/ f.name[1] = id)}

\* C11: a job whose classification reply is not valid JSON ends with the
\* failed status ("error"), its staged files are all still in the staging
\* area, no file of it is under categories, and the ledger has no entry for
\* its ID.
C11_MalformedReplyFailsClean ==
    \A id \in ImageIDs :
        MalformedReply(id) =>
            /\ StagedFiles(id) \subseteq files
            /\ Relocated(id) = {}
            /\ EntriesOf(id) = {}
            /\ \A i \in 1..Len(index) : id \notin Range(index[i])
            /\ Finished(id) =>
                 /\ StatusOf(id) = "error"
                 /\ failure[id] = AnalyzeFailure(upJob[id].Type,
                                                 "failed to parse Gemini response")
            /\ ~Finished(id) => StatusOf(id) = "processing"

C11_Witness ==
    \E a, b \in ImageIDs :
        /\ MalformedReply(a) /\ Finished(a) /\ upJob[a].Type = ImageType2D
        /\ MalformedReply(b) /\ Finished(b) /\ upJob[b].Type = ImageType3D
        /\ StatusOf(a) = "error" /\ StatusOf(b) = "error"

\* the files and directories that carry the name of upload id
FilesOf(id) == {f \in files : f.dir.id = id \/ f.name[1] = id}

\* C12: an upload that fails validation (a 4-view upload without its right
\* view, a missing model or image, empty title or artist, bad tags, a bad
\* form) is answered at once with the validation error; it is never in the
\* queue, never has a status entry, is never with a worker, and nothing is
\* staged for it.
C12_InvalidNeverEnters ==
    \A id \in DOMAIN request :
        Validate(request[id]) /= "" =>
            /\ upPc[id] = Validate(request[id])
            /\ ~GetStatusFound(id)
            /\ id \notin DOMAIN upJob
            /\ ~InQueue(id)
            /\ ~Held(id)
            /\ trace[id] = <<>>
            /\ FilesOf(id) = {}
            /\ StagedDir(id) \notin dirs

C12_Witness ==
    \E a, b \in DOMAIN request :
        /\ request[a] = MissingRight
        /\ upPc[a] = "Missing view: right"
        /\ ~GetStatusFound(a)
        /\ upPc[b] = "accepted"
        /\ Finished(b)

\* the result is made of lower-case letters, digits and hyphens only
NormalizedCharset(name) ==
    \A i \in 1..Len(name) : name[i] \in Range(LowerCase) \cup Digits \cup {"-"}

\* C13: for every category string, the empty one and those of punctuation
\* or blanks only included, GetCategoryPath / normalizeCategoryName returns
\* a non-empty string of lower-case letters, digits and hyphens;
\* "Sci-Fi Character!" gives "sci-fi-character".
C13_NormalizeTotalNonEmpty ==
    call.fn = "GetCategoryPath" =>
        /\ ret /= <<>>
        /\ NormalizedCharset(ret)
        /\ call.arg = SciFiCharacter =>
              ret = <<"s", "c", "i", "-", "f", "i", "-", "c", "h", "a", "r", "a", "c", "t", "e", "r">>

\* what does hold of normalizeCategoryName: the character set and the example
C13_NormalizeCharsetOnly ==
    call.fn = "GetCategoryPath" =>
        /\ NormalizedCharset(ret)
        /\ call.arg = SciFiCharacter =>
              ret = <<"s", "c", "i", "-", "f", "i", "-", "c", "h", "a", "r", "a", "c", "t", "e", "r">>

\* the summary parsed back carries the record's title, artist, category and tags
SameSummary(summary, img) ==
    /\ summary.ID = <<img.ID>>
    /\ summary.Title = img.Title
    /\ summary.Artist = img.Artist
    /\ summary.Category = img.Category
    /\ summary.Tags = img.ManualTags

\* C14: an entry built from any record the pipeline can produce (any title,
\* artist, normalized category and tag list, the empty category and tags
\* with a comma or empty included) is parsed back by GetAllImages as one
\* summary with the record's title, artist, category and tag list.
C14_RoundTrip ==
    call.fn = "GetAllImages" =>
        /\ Len(ret) = 1
        /\ SameSummary(ret[1], call.arg)

\* a record whose category is not empty and whose tags are non-empty words
\* without ", "
PlainRecord(img) ==
    /\ img.Category /= <<>>
    /\ \A i \in 1..Len(img.ManualTags) :
          img.ManualTags[i] /= <<>> /\ ", " \notin Range(img.ManualTags[i])

\* what does hold: the round trip of plain records
C14_RoundTripPlain ==
    (call.fn = "GetAllImages" /\ PlainRecord(call.arg)) =>
        /\ Len(ret) = 1
        /\ SameSummary(ret[1], call.arg)

\* the lines of the ledger entry of asset id: from its heading to the line
\* before the next heading
EntryLines(id) ==
    LET heads == {i \in 1..Len(index) : index[i] = <<"## Image: ", id>>}
        h     == FirstFrom(heads)
        n     == FirstFrom({j \in (h + 1)..Len(index) : IsHeading(index[j])})
        end   == IF n = 0 THEN Len(index) ELSE n - 1
    IN IF h = 0 THEN {} ELSE {index[j] : j \in h..end}

\* a 2D job with the tags beach, sunset whose classification said
\* "Landscapes" and whose worker is done, no step having failed
LandscapeJobDone(id) ==
    /\ id \in DOMAIN upJob
    /\ upJob[id].Type = ImageType2D
    /\ upJob[id].ManualTags = << <<"beach">>, <<"sunset">> >>
    /\ Finished(id)
    /\ failure[id] = ""
    /\ GetStatus(id).AIAnalysis.PrimaryCategory = Landscapes

\* C15: for a 2D job with tags [beach, sunset] classified "Landscapes",
\* once the worker is done the status is completed, the image is at
\* categories/landscapes/<id>.<ext>, its thumbnail at
\* categories/landscapes/<id>_thumb.jpg, and the ledger entry of the ID has
\* the lines "**Category:** landscapes" and "**Manual Tags:** beach, sunset".
C15_LandscapeScenario ==
    \A id \in ImageIDs :
        LandscapeJobDone(id) =>
            LET landscapes == <<"l", "a", "n", "d", "s", "c", "a", "p", "e", "s">>
                dir == Dir("categories", landscapes, "")
            IN /\ StatusOf(id) = "completed"
               /\ Path(dir, <<id, ".png">>) \in files
               /\ Path(dir, <<id, "_thumb", ".jpg">>) \in files
               /\ StagedPath(id) \notin files
               /\ GetStatus(id).FilePath =
                     <<"categories", "/">> \o landscapes \o <<"/", id, ".png">>
               /\ <<"**Category:**">> \o landscapes \in EntryLines(id)
               /\ <<"**Manual Tags:**", "beach", ", ", "sunset">> \in EntryLines(id)

C15_Witness ==
    \E id \in ImageIDs :
        /\ LandscapeJobDone(id)
        /\ StatusOf(id) = "completed"
        /\ Cardinality(EntryLines(id)) > 2

\* a step that changes the status record asset id already has
RecordChanges(id) ==
    /\ id \in DOMAIN statusMap
    /\ statusMap'[id] /= statusMap[id]

\* C16: the status record of an accepted job is changed exactly once: every
\* step that changes it is taken by the worker that dequeued the job, finds
\* it "processing" and leaves it "completed" or "error"; so a record that
\* has left "processing" is never written again.
C16_SingleStatusWrite ==
    [][\A id \in ImageIDs :
          RecordChanges(id) =>
              /\ statusMap[id].Status = "processing"
              /\ statusMap'[id].Status \in {"completed", "error"}
              /\ \E w \in Workers : HeldBy(w, id)]_vars

\* what does hold: only the worker that dequeued the job changes its record,
\* and the record never returns to "processing"
C16_OnlyItsWorkerWrites ==
    [][\A id \in ImageIDs :
          RecordChanges(id) =>
              /\ statusMap'[id].Status \in {"completed", "error"}
              /\ \E w \in Workers : HeldBy(w, id) /\ served[w][Len(served[w])] = id]_vars

\* a step that writes fields of the record the map already points to
\* (updateStatus), as opposed to one that makes the map point to a new record
WritesInPlace(id) ==
    /\ RecordChanges(id)
    /\ RecordObject(statusMap'[id]) = RecordObject(statusMap[id])

\* the handler is encoding the record the map holds for id
ReadingRecord(id) ==
    /\ reader.pc = "encode"
    /\ reader.id = id
    /\ reader.obj = RecordObject(GetStatus(id))

\* C17: status reads exclude writes: no worker writes the fields of a record
\* while the handler that got it from GetStatus is reading them.
C17_ReadsExcludeWrites ==
    [][\A id \in ImageIDs : WritesInPlace(id) => ~ReadingRecord(id)]_vars

\* what does hold: the record a handler reads is one the map held when
\* GetStatus looked it up under the read lock
C17_ReadsWhatMapHeld ==
    reader.pc = "encode" =>
        /\ GetStatusFound(reader.id)
        /\ reader.obj = "image" => StatusOf(reader.id) = "completed"

Min(a, b) == IF a < b THEN a ELSE b

\* Search was called with a list of matches the provider returned
SearchedWithMatches == call.fn = "Search" /\ call.arg.found.err = ""

\* the first min(limit, n) matches, in provider order, and their number
Truncated ==
    LET n == Len(call.arg.found.results)
    IN /\ ~ret.panic
       /\ ret.err = ""
       /\ ret.Results = SubSeq(call.arg.found.results, 1, Min(call.arg.limit, n))
       /\ ret.Total = Len(ret.Results)

\* C18: for every list of n matches the provider returns and every limit a
\* client can request, Search returns without failing the first
\* min(limit, n) matches in provider order, and Total is their number.
C18_SearchTruncates == SearchedWithMatches => Truncated

\* what does hold: the same for every limit that is not negative
C18_SearchTruncatesFromZero ==
    (SearchedWithMatches /\ call.arg.limit >= 0) => Truncated

\* getThumbnailPath was applied to a path dir/name.ext
ThumbnailOfNameExt ==
    /\ call.fn = "getThumbnailPath"
    /\ call.arg.name[Len(call.arg.name)] \in DotTokens

\* C19: for every image path dir/name.ext the thumbnail path is
\* dir/name_thumb.jpg: only the last extension is replaced and the directory
\* is kept.
C19_ThumbnailNaming ==
    ThumbnailOfNameExt =>
        LET base == call.arg.name
        IN ret = Path(call.arg.dir,
                      SubSeq(base, 1, Len(base) - 1) \o <<"_thumb", ".jpg">>)

C19_Witness ==
    /\ ThumbnailOfNameExt
    /\ call.arg.name = <<"my", ".image", ".png">>
    /\ ret.name = <<"my", ".image", "_thumb", ".jpg">>
    /\ ret.dir = call.arg.dir

\* the path MoveToCategory looks for is the one GenerateThumbnail wrote: a
\* worker about to rename the thumbnail finds it
C19_RelocationFindsThumbnail ==
    \A w \in Workers :
        wk[w].pc = "movethumb" =>
            getThumbnailPath(StagedPath(wk[w].job.ImageID)) \in files

\* strings.Contains(entry, text), the test the ledger's readers and the unit
\* tests apply: the text occurs somewhere in the entry
Contains(entry, text) ==
    \E i \in 1..Len(entry) : \E k \in 1..Len(entry[i]) : entry[i][k] = text

\* the first line of the entry that begins with text (0 when none does)
LineOf(entry, text) ==
    FirstFrom({i \in 1..Len(entry) : entry[i] /= <<>> /\ entry[i][1] = text})

Serialized == call.fn = "buildMarkdownEntry"

\* the heading with the ID, then Title, Artist, Uploaded, Type, Category
FixedLinesInOrder ==
    LET h == FirstFrom({i \in 1..Len(ret) : ret[i] = <<"## Image: ", call.arg.ID>>})
    IN /\ 0 < h
       /\ h < LineOf(ret, Marker("Title"))
       /\ LineOf(ret, Marker("Title")) < LineOf(ret, Marker("Artist"))
       /\ LineOf(ret, Marker("Artist")) < LineOf(ret, Marker("Uploaded"))
       /\ LineOf(ret, Marker("Uploaded")) < LineOf(ret, Marker("Type"))
       /\ LineOf(ret, Marker("Type")) < LineOf(ret, Marker("Category"))

OptionalBlocks ==
    /\ Contains(ret, Marker("Manual Tags")) <=> Len(call.arg.ManualTags) > 0
    /\ Contains(ret, Marker("AI Analysis")) <=> call.arg.AIAnalysis.present

C20_FixedLines == Serialized => FixedLinesInOrder
C20_OptionalBlocksPlainTitle ==
    (Serialized /\ call.arg.Title = <<"Sunset">>) => OptionalBlocks

ReadOf(exists) == call.fn = "ReadIndex" /\ call.arg.exists = exists
\* the file holds no entry
NoEntries(content) == \A i \in 1..Len(content) : ~IsHeading(content[i])

\* C21: ReadIndex on a ledger that was never initialized returns an error and
\* no text; on an initialized ledger without entries it returns the header,
\* which is not empty.
C21_ReadIndexMissingOrHeader ==
    /\ ReadOf(FALSE) => (ret.err /= "" /\ ret.content = <<>>)
    /\ (ReadOf(TRUE) /\ NoEntries(call.arg.index)) =>
           (ret.err = "" /\ ret.content = IndexHeader /\ ret.content /= <<>>)

C21_Witness ==
    /\ ReadOf(TRUE)
    /\ NoEntries(call.arg.index)
    /\ ret.content = IndexHeader
    /\ \E c \in Callers : wk[c].wrote

\* file f is under categories/
InCategory(f) == f.dir.root = "categories"

\* f is the image MoveToCategory has renamed while the rename of its
\* thumbnail is still to come or has just failed: MoveToCategory has not
\* returned yet
InsideMoveToCategory(f) ==
    \E w \in Workers :
        /\ wk[w].pc \in {"movethumb", "rollback"}
        /\ f = NewPath(wk[w].job.ImageID, StagedPath(wk[w].job.ImageID), wk[w].category)

Moved3D == call.fn = "Move3DToCategory"

\* the staged directory went over whole: nothing is left in it and every
\* file it held is in the final directory under its name
WholeDirectoryMoved ==
    LET new == Dir("categories", call.arg.category, call.arg.id)
    IN /\ \A f \in ret.files : f.dir /= StagedDir(call.arg.id)
       /\ \A f \in call.arg.fs : Path(new, f.name) \in ret.files
       /\ Cardinality(ret.files) = Cardinality(call.arg.fs)

\* one entry per staged slot, pointing at the slot's view file in the final
\* directory
SlotMapExact ==
    LET new == Dir("categories", call.arg.category, call.arg.id)
    IN ret.views =
         {<<v, PathText(Path(new, <<v>> \o Ext(call.arg.filenames[v])))>> :
             v \in call.arg.views}

\* C23: Move3DToCategory moves the staged directory whole and returns a slot
\* map with exactly one entry per staged slot (4 or 6), each the slot's own
\* view file in the final directory, never a thumbnail or the model file.
C23_SlotMapExact == Moved3D => (WholeDirectoryMoved /\ SlotMapExact)

\* what does hold: the move is whole for every upload, and the slot map is
\* exact when no uploaded view file has "_thumb" in its extension
C23_WholeDirectoryMoved == Moved3D => WholeDirectoryMoved
C23_SlotMapExactPlainExt ==
    (Moved3D /\ \A v \in call.arg.views : "_thumb" \notin Range(Ext(call.arg.filenames[v])))
        => SlotMapExact

\* the ledger still holds the entry of record img
EntryPresent(img) ==
    \E i \in 1..Len(ParseIndex(index)) : ParseIndex(index)[i].ID = <<img.ID>>

\* C24: for every interleaving of InitializeIndex and AppendToIndex calls on
\* one ledger, every entry whose append returned nil is still in the ledger:
\* InitializeIndex never truncates a ledger another caller created or
\* appended to.
C24_AppendedEntriesStay == \A img \in appended : EntryPresent(img)

\* C25: in every reachable state an asset whose status is failed ("error")
\* has no entry in the ledger, whichever step failed, for both job kinds.
C25_FailedHasNoEntry ==
    \A id \in ImageIDs : StatusOf(id) = "error" => EntriesOf(id) = {}

\* what does hold: the same for every failure but a WriteString that
\* returned an error
C25_FailedBeforeWriteHasNoEntry ==
    \A id \in ImageIDs :
        (StatusOf(id) = "error" /\ failure[id] /= "failed to write to index")
            => EntriesOf(id) = {}

\* C26: once a job has its terminal status, its files are in a category
\* directory if and only if the ledger holds its entry.
C26_ArchivedIffIndexed ==
    \A id \in ImageIDs :
        Finished(id) => (Relocated(id) /= {} <=> EntriesOf(id) /= {})

\* what does hold: a completed job has both, and an entry whose append
\* returned nil is never without its files
C26_CompletedArchivedAndIndexed ==
    \A id \in ImageIDs :
        (Finished(id) /\ StatusOf(id) = "completed")
            => (Relocated(id) /= {} /\ EntriesOf(id) /= {})

\* C27: a poll of an accepted job reports "processing" until its worker has
\* written the result; a status only ever changes from "processing" to
\* "completed" or from "processing" to "error", so a completed or failed
\* record keeps its status.
C27_StatusTransitions ==
    /\ [](\A id \in ImageIDs :
            (upPc[id] = "accepted" /\ NotYetWritten(id)) =>
                (GetStatusFound(id) /\ StatusOf(id) = "processing"))
    /\ [][\A id \in DOMAIN statusMap :
            statusMap'[id].Status /= statusMap[id].Status =>
                /\ statusMap[id].Status = "processing"
                /\ statusMap'[id].Status \in {"completed", "error"}
                /\ Held(id)]_vars

\* one job polled as completed and one as failed, both after their workers
\* finished
C27_Witness ==
    \E a \in ImageIDs : \E b \in ImageIDs \ {a} :
        /\ upPc[a] = "accepted" /\ Finished(a) /\ StatusOf(a) = "completed"
        /\ upPc[b] = "accepted" /\ Finished(b) /\ StatusOf(b) = "error"

\* some worker has taken job id from the queue
Dequeued(id) == \E w \in Workers : \E i \in 1..Len(served[w]) : served[w][i] = id

\* C28: with the workers scheduled fairly and every call returning, every
\* accepted job is eventually dequeued and its status eventually becomes
\* "completed" or "error".
C28_AcceptedEventuallyTerminal ==
    \A id \in ImageIDs :
        /\ (upPc[id] = "accepted") ~> Dequeued(id)
        /\ (upPc[id] = "accepted") ~> (Finished(id) /\ StatusOf(id) \in {"completed", "error"})

\* every job of the run was accepted, dequeued and brought to a terminal
\* status, one completed and one failed
C28_Witness ==
    /\ \A id \in ImageIDs :
          upPc[id] = "accepted" /\ Dequeued(id) /\ Finished(id)
    /\ \E id \in ImageIDs : StatusOf(id) = "completed"
    /\ \E id \in ImageIDs : StatusOf(id) = "error"

\* how often job id is in the queue, and how often a worker received it
TimesQueued(id) == Cardinality({i \in 1..Len(jobQueue) : jobQueue[i].ImageID = id})
TimesServed(id) ==
    Cardinality({<<w, i>> \in Workers \X (1..NumJobs) :
                    i <= Len(served[w]) /\ served[w][i] = id})

LedgerCategories ==
    {Tail(index[i]) : i \in {j \in 1..Len(index) :
                                index[j] /= <<>> /\ index[j][1] = Marker("Category")}}

\* worker w takes the step that ensures the directory of its category and
\* renames into it, the directory being there already
RelocatesIntoExisting(w) ==
    /\ wk[w].pc \in {"move", "move3d"}
    /\ wk'[w].pc /= wk[w].pc
    /\ Dir("categories", wk[w].category, "") \in dirs

\* C30: whenever the ledger holds an entry with category c the directory
\* categories/c exists; and a relocation into a category directory that
\* already exists keeps the directory and everything in it.
C30_CategoryDirBeforeRecord ==
    /\ [](\A c \in LedgerCategories : Dir("categories", c, "") \in dirs)
    /\ [][\A w \in Workers :
            RelocatesIntoExisting(w) =>
                /\ Dir("categories", wk[w].category, "") \in dirs'
                /\ \A f \in files :
                      f.dir = Dir("categories", wk[w].category, "") => f \in files']_vars

\* the ledger holds two entries of one category, the second relocated into
\* the directory the first had created, both images in it
C30_Witness ==
    \E c \in LedgerCategories :
        /\ c /= <<>>
        /\ Cardinality({i \in 1..Len(index) : index[i] = Field("Category", c)}) = 2
        /\ Cardinality({f \in files : f.dir = Dir("categories", c, "")
                                        /\ "_thumb" \notin Range(f.name)}) = 2

\* the classification call of job id has not returned and never will
Blocked(id) == \E w \in Workers : wk[w].pc = "blocked" /\ wk[w].job.ImageID = id

\* C31: a job whose classification call never returns stays in status
\* "processing" and keeps its worker for ever, and every other accepted job
\* is still dequeued and brought to "completed" or "error" by the workers
\* that are left.
C31_OnlyItsWorkerBlocked ==
    /\ \A id \in ImageIDs :
          [](Blocked(id) => [](Blocked(id) /\ StatusOf(id) = "processing"))
    /\ \A id \in ImageIDs :
          (upPc[id] = "accepted") ~>
              (Blocked(id) \/ (Finished(id) /\ StatusOf(id) \in {"completed", "error"}))

\* one job is blocked in its classification call and the other one, accepted
\* after it, was finished by the other worker
C31_Witness ==
    \E a, b \in ImageIDs :
        /\ Blocked(a) /\ StatusOf(a) = "processing"
        /\ ~Blocked(b) /\ upPc[b] = "accepted" /\ Finished(b)
        /\ StatusOf(b) \in {"completed", "error"}

IsPrefix(s, t) == Len(s) =< Len(t) /\ SubSeq(t, 1, Len(s)) = s

\* the step in which ReadIndex or GetAllImages is called and returns
ReadStep == call' /= call
\* the step in which goroutine c's AppendToIndex meets its error
AppendFails(c) == wk[c].pc \in {"lock", "write"} /\ wk'[c].err /= "" /\ wk[c].err = ""
\* the step in which goroutine c's AppendToIndex writes
AppendWrites(c) == wk[c].pc = "write" /\ wk'[c].pc = "unlock"

\* C32: no step of InitializeIndex, AppendToIndex, ReadIndex or GetAllImages
\* takes anything away from the ledger (its text before the step is a prefix
\* of its text after it), ReadIndex and GetAllImages leave it as it is, and
\* so does an AppendToIndex that returns an error.
C32_AppendOnly ==
    [][/\ indexExists => indexExists'
       /\ IsPrefix(index, index')
       /\ ReadStep => UNCHANGED indexVars
       /\ \A c \in Callers : AppendFails(c) => UNCHANGED indexVars]_vars

\* ReadIndex and GetAllImages leave the ledger as it is, and every write of
\* AppendToIndex, whole or cut short, only adds to its end
C32_ReadsAndAppendsOnlyAdd ==
    [][/\ ReadStep => UNCHANGED indexVars
       /\ \A c \in Callers : AppendWrites(c) => IsPrefix(index, index')]_vars

\* an AppendToIndex that fails before its write leaves the ledger as it is
C32_FailedBeforeWriteLeavesLedger ==
    [][\A c \in Callers :
          AppendFails(c) /\ wk'[c].err /= "failed to write to index"
              => UNCHANGED indexVars]_vars

\* the elements of a path given as text, cut at the separators
Elements(text) == Split(text, "/")

\* C33: whatever string the provider returns as category, the normalized
\* category holds no path separator and no dot, and the directory the asset
\* is relocated into is a directory of the categories root, exactly one
\* level below it; the file is directly in that directory.
C33_OneLevelBelowRoot ==
    call.fn = "MoveToCategory" =>
        /\ \A i \in 1..Len(ret.category) : ret.category[i] \notin {"/", "\\", "."}
        /\ Len(Elements(ret.dir)) = 2
        /\ Elements(ret.dir)[1] = <<"categories">>
        /\ Len(Elements(ret.path)) = 3

\* what does hold: no separator and no dot, and a directory that is the
\* categories root or a directory of it, never deeper and never outside
C33_NeverNestedNeverOutside ==
    call.fn = "MoveToCategory" =>
        /\ \A i \in 1..Len(ret.category) : ret.category[i] \notin {"/", "\\", "."}
        /\ Len(Elements(ret.dir)) \in {1, 2}
        /\ Elements(ret.dir)[1] = <<"categories">>
        /\ Len(Elements(ret.path)) = Len(Elements(ret.dir)) + 1
        /\ ret.category /= <<>> => Len(Elements(ret.dir)) = 2

\* the place of a time stamp among the readings of its job
ReadingOf(t) == CHOOSE i \in 1..Len(ClockReadings) : <<ClockReadings[i]>> = t
\* time stamp t can be an earlier instant than time stamp u
CanBeEarlier(t, u) == ReadingOf(t) < ReadingOf(u)

\* the processing record QueueJob wrote for job id
ProcessingRecord(id) == QueueJobStatus(upJob[id])

\* the status map holds a record of job id that a pipeline stored
StoredCompleted(id) ==
    /\ id \in DOMAIN statusMap
    /\ statusMap[id].Category /= <<>> \/ statusMap[id].AIAnalysis.present

\* C34: the completed record a worker stores carries the asset ID, kind,
\* title, artist, caller tags and creation time stamp of the processing
\* record written at acceptance, and in every state of the status map a
\* record's completion time stamp is not earlier than its creation time stamp.
C34_CompletedKeepsAccepted ==
    \A id \in ImageIDs :
        StoredCompleted(id) =>
            /\ statusMap[id].ID = ProcessingRecord(id).ID
            /\ statusMap[id].Type = ProcessingRecord(id).Type
            /\ statusMap[id].Title = ProcessingRecord(id).Title
            /\ statusMap[id].Artist = ProcessingRecord(id).Artist
            /\ statusMap[id].ManualTags = ProcessingRecord(id).ManualTags
            /\ statusMap[id].UploadedAt = ProcessingRecord(id).UploadedAt
            /\ ~CanBeEarlier(statusMap[id].ProcessedAt, statusMap[id].UploadedAt)

\* what the stored record does keep: asset ID, kind, title, artist and tags
C34_CompletedKeepsIdentity ==
    \A id \in ImageIDs :
        StoredCompleted(id) =>
            /\ statusMap[id].ID = ProcessingRecord(id).ID
            /\ statusMap[id].Type = ProcessingRecord(id).Type
            /\ statusMap[id].Title = ProcessingRecord(id).Title
            /\ statusMap[id].Artist = ProcessingRecord(id).Artist
            /\ statusMap[id].ManualTags = ProcessingRecord(id).ManualTags

\* once the worker has written the final status, the completion time stamp of
\* a completed record is not earlier than its creation time stamp
C34_FinishedNotEarlier ==
    \A id \in ImageIDs :
        (StoredCompleted(id) /\ Finished(id) /\ StatusOf(id) = "completed") =>
            ~CanBeEarlier(statusMap[id].ProcessedAt, statusMap[id].UploadedAt)

====
